---- MODULE Spec2Model ----
(***************************************************************************)
(* Action-search dialog of GIMP (action-search-dialog.c): the keyword      *)
(* matcher, the result list, the search session and the opacity of the     *)
(* window; the ISO-639 parser of the language store                        *)
(* (gimplanguagestore-parser.c).                                           *)
(*                                                                         *)
(* Strings are sequences of one-character strings; the C NULL pointer is   *)
(* the value NULL below.                                                   *)
(***************************************************************************)
EXTENDS Integers, Sequences, FiniteSets, TLC

VARIABLES
  (* harness of the pure functions (MatchSpec) *)
  arg_label,      \* gimp_strip_uline (gtk_action_get_label (action))
  arg_tooltip,    \* gtk_action_get_tooltip (action), may be NULL
  arg_keyword,    \* keyword, may be NULL
  pc,             \* "start", "matched" (matcher was called), "fuzzy" (fuzzy was called)
  ret_matched,    \* return value of the function called
  ret_section,    \* *section after the call
  (* the collaborators of the dialog *)
  sensitive,      \* gtk_action_get_sensitive, per action of the registry
  history,        \* the recent actions, most recent first
  search_show_unavailable,   \* config->search_show_unavailable
  (* SearchDialog *)
  entry_text,     \* the text of private->keyword_entry
  results,        \* the rows of the list store behind private->results_list
  selected,       \* the selected row of results_list (from 1), 0 for none
  list_view_visible,   \* gtk_widget_get_visible (private->list_view)
  dialog,         \* "shown", or "destroyed" after gtk_widget_destroy
  activated,      \* the actions gtk_action_activate was called on
  last_event,     \* the handler that ran last, with its arguments
  (* the window of the dialog *)
  search_dialog_opacity,   \* config->search_dialog_opacity, in percent
  window_opacity,          \* the opacity given to gtk_window_set_opacity, in percent
  last_scroll,             \* the scroll event window_scrolled handled last
  search_dialog_x,         \* config->search_dialog_x
  search_dialog_y,         \* config->search_dialog_y
  search_dialog_width,     \* config->search_dialog_width
  search_dialog_height,    \* config->search_dialog_height
  geometry_event,          \* the call that looked at the geometry last, with
                           \* what it read from the screen and the window
  (* gimp_language_store_parse_iso_codes *)
  HAVE_ISO_CODES, \* the build has the ISO-codes data
  iso_639_xml,    \* the file iso_639.xml is there
  parse_pc,       \* "idle", "parsing" (inside gimp_xml_parser_parse_file), "returned"
  open_elements,  \* the elements the XML parser has open, outermost first
  parser_state,       \* parser.state
  last_known_state,   \* parser.last_known_state
  unknown_depth,      \* parser.unknown_depth
  language_store, \* the entries given to gimp_language_store_add, in order
  LANGUAGE,       \* the environment variable LANGUAGE, NULL when unset
  LANGUAGE_writes,    \* the calls of g_setenv and g_unsetenv on LANGUAGE so far
  parse_success,  \* the return value of gimp_language_store_parse_iso_codes
  parse_error,    \* *error after the call, NULL when not set
  parse_log,      \* the parser callbacks so far, each with parser.state after it
  (* harness of iso_codes_parser_entry (EntrySpec) *)
  arg_attrs       \* names and values, as a sequence of attributes

match_vars  == <<arg_label, arg_tooltip, arg_keyword, pc, ret_matched, ret_section>>
env_vars    == <<sensitive, history, search_show_unavailable>>
dialog_vars == <<entry_text, results, selected, list_view_visible, dialog,
                 activated, last_event>>

geometry_vars == <<search_dialog_x, search_dialog_y, search_dialog_width,
                   search_dialog_height, geometry_event>>
window_vars == <<search_dialog_opacity, window_opacity, last_scroll,
                 geometry_vars>>
parser_vars == <<HAVE_ISO_CODES, iso_639_xml, parse_pc, open_elements,
                 parser_state, last_known_state, unknown_depth,
                 language_store, LANGUAGE, LANGUAGE_writes,
                 parse_success, parse_error, parse_log, arg_attrs>>

vars == <<match_vars, env_vars, dialog_vars, window_vars, parser_vars>>

(***************************************************************************)
(* Bounds of the model                                                     *)
(***************************************************************************)
MaxLabelLen == 4     \* labels given to the matcher
MaxKeyLen   == 3     \* keywords given to the matcher
MaxTipLen   == 3     \* tooltips given to the matcher
MaxHistory  == 2     \* actions in the recent history
MaxRows     == 3     \* rows added in ListSpec

(***************************************************************************)
(* C strings                                                               *)
(***************************************************************************)
NULL == <<"NULL">>
NUL  == "NUL"      \* the terminating '\0' read one past the last character

UpperChars == <<"A","B","C","D","E","F","G","H","I","J","K","L","M",
                "N","O","P","Q","R","S","T","U","V","W","X","Y","Z">>
LowerChars == <<"a","b","c","d","e","f","g","h","i","j","k","l","m",
                "n","o","p","q","r","s","t","u","v","w","x","y","z">>

\* the uppercase letters, each with its lowercase letter
UpperToLower ==
  [c \in {UpperChars[i] : i \in 1..Len(UpperChars)} |->
     LowerChars[CHOOSE i \in 1..Len(UpperChars) : UpperChars[i] = c]]

tolower(c) == IF c \in DOMAIN UpperToLower THEN UpperToLower[c] ELSE c

\* for (i = 0; i < strlen (s); i++) s[i] = tolower (s[i]);
LowerStr(s) == [i \in 1..Len(s) |-> tolower(s[i])]

\* s[i] of a NUL-terminated string, i counted from 1
CharAt(s, i) == IF i <= Len(s) THEN s[i] ELSE NUL

\* strchr (s + from - 1, c): the index (from 1) of the first c at or after
\* from, 0 for a NULL result
RECURSIVE strchr_from(_, _, _)
strchr_from(s, c, from) ==
  IF from > Len(s) THEN 0
  ELSE IF s[from] = c THEN from
  ELSE strchr_from(s, c, from + 1)

strchr(s, c) == strchr_from(s, c, 1)

\* strstr (haystack, needle): the index (from 1) of the first occurrence,
\* 0 for a NULL result; the empty needle is found at the start
RECURSIVE strstr_from(_, _, _)
strstr_from(haystack, needle, from) ==
  IF from + Len(needle) - 1 > Len(haystack) THEN 0
  ELSE IF SubSeq(haystack, from, from + Len(needle) - 1) = needle THEN from
  ELSE strstr_from(haystack, needle, from + 1)

strstr(haystack, needle) == strstr_from(haystack, needle, 1)

(***************************************************************************)
(* action_fuzzy_match                                                      *)
(***************************************************************************)
\* a slip: the recursion continues at the character found, not after it
RECURSIVE fuzzy_from_no_advance(_, _, _)
fuzzy_from_no_advance(string, key, from) ==
  IF Len(key) = 0 THEN TRUE
  ELSE LET found == strchr_from(string, key[1], from)
       IN  IF found # 0
           THEN fuzzy_from_no_advance(string, Tail(key), found)
           ELSE FALSE

\* action_fuzzy_match (string + from - 1, key)
RECURSIVE fuzzy_from(_, _, _)
fuzzy_from(string, key, from) ==
  IF Len(key) = 0 THEN TRUE
  ELSE LET remaining_string == strchr_from(string, key[1], from)
       IN  IF remaining_string # 0
           THEN fuzzy_from(string, Tail(key), remaining_string + 1)
           ELSE FALSE

action_fuzzy_match(string, key) == fuzzy_from(string, key, 1)

(***************************************************************************)
(* action_search_match_keyword                                             *)
(***************************************************************************)
MaxSection == 4

\* a slip: the second letter is compared with the second character of the
\* label instead of the character after the first space
InitialsRule_second_char(label, key) ==
  /\ Len(key) = 2
  /\ strchr(label, " ") # 0
  /\ key[1] = CharAt(label, 1)
  /\ key[2] = CharAt(label, 2)

\* a slip: the rule is never applied
InitialsRule_dropped(label, key) == FALSE

\* the two-letter rule on the lowercased label and key
InitialsRule(label, key) ==
  /\ Len(key) = 2
  /\ LET space_pos == strchr(label, " ")
     IN  /\ space_pos # 0
         /\ key[1] = CharAt(label, 1)
         /\ key[2] = CharAt(label, space_pos + 1)

\* a slip: the test of the label start is inverted
SubstrSection_swapped(substr) == IF substr = 1 THEN 2 ELSE 1

\* *section = (substr == label)? 1 : 2;
SubstrSection(substr) == IF substr = 1 THEN 1 ELSE 2

\* a slip: the tooltip is searched for two-character keywords too
TooltipRule_two_chars(tooltip, key) ==
  /\ Len(key) >= 2
  /\ tooltip # NULL
  /\ strstr(LowerStr(tooltip), key) # 0

\* the tooltip rule on the lowercased key
TooltipRule(tooltip, key) ==
  /\ Len(key) > 2
  /\ tooltip # NULL
  /\ strstr(LowerStr(tooltip), key) # 0

\* The result of action_search_match_keyword for an action with the given
\* (underline-stripped) label and tooltip: the return value and the value of
\* *section after the call, which is section_in when nothing is stored.
action_search_match_keyword(action_label, action_tooltip, keyword, section_in) ==
  IF keyword = NULL
  THEN [matched |-> TRUE, section |-> 0]
  ELSE LET key   == LowerStr(keyword)
           label == LowerStr(action_label)
       IN  IF InitialsRule(label, key)
           THEN [matched |-> TRUE, section |-> 1]
           ELSE LET substr == strstr(label, key)
                IN  IF substr # 0
                    THEN [matched |-> TRUE, section |-> SubstrSection(substr)]
                    ELSE IF TooltipRule(action_tooltip, key)
                    THEN [matched |-> TRUE, section |-> 3]
                    ELSE IF action_fuzzy_match(label, key)
                    THEN [matched |-> TRUE, section |-> MaxSection]
                    ELSE [matched |-> FALSE, section |-> section_in]

(***************************************************************************)
(* The action registry: the actions of the groups of the "<Image>" UI      *)
(* manager, in the order the scan meets them (group after group, each      *)
(* group sorted by gimp_action_name_compare).  An action is its index.     *)
(***************************************************************************)
Registry ==
  << [name    |-> <<"c","o","n","t","e","x","t","-","c","o","p","y">>,
      label   |-> <<"C","o","p","y">>,
      tooltip |-> NULL],
     [name    |-> <<"e","d","i","t","-","c","o","p","y">>,
      label   |-> <<"C","o","p","y">>,
      tooltip |-> NULL],
     [name    |-> <<"e","d","i","t","-","c","u","t","-","o","u","t">>,
      label   |-> <<"C","u","t"," ","O","u","t">>,
      tooltip |-> NULL],
     [name    |-> <<"e","d","i","t","-","m","e","n","u">>,
      label   |-> <<"C","o","p","y">>,
      tooltip |-> NULL],
     [name    |-> <<"l","a","y","e","r","s","-","d","u","p">>,
      label   |-> <<"D","u","p">>,
      tooltip |-> <<"c","o","p","y">>],
     [name    |-> <<"l","a","y","e","r","s","-","p","o","p","u","p">>,
      label   |-> <<"C","o","p","y">>,
      tooltip |-> NULL],
     [name    |-> <<"p","l","u","g","-","i","n","-","b","l","a","n","k">>,
      label   |-> <<>>,
      tooltip |-> <<"C","o","p","y">>],
     [name    |-> <<"p","l","u","g","-","i","n","-","r","e","c","e","n","t","-","0","1">>,
      label   |-> <<"C","o","p","y">>,
      tooltip |-> NULL],
     [name    |-> <<"t","o","o","l","s","-","c","r","o","p">>,
      label   |-> <<"C","r","o","p">>,
      tooltip |-> NULL],
     [name    |-> <<"v","i","e","w","-","s","c","o","p","e">>,
      label   |-> <<"S","c","o","p","e">>,
      tooltip |-> NULL] >>

Actions == 1..Len(Registry)

edit_copy     == CHOOSE a \in Actions : Registry[a].name = <<"e","d","i","t","-","c","o","p","y">>
plug_in_blank == CHOOSE a \in Actions : Registry[a].label = <<>>
edit_cut_out  == CHOOSE a \in Actions : Registry[a].name = <<"e","d","i","t","-","c","u","t","-","o","u","t">>
edit_menu     == CHOOSE a \in Actions : Registry[a].name = <<"e","d","i","t","-","m","e","n","u">>
tools_crop    == CHOOSE a \in Actions : Registry[a].name = <<"t","o","o","l","s","-","c","r","o","p">>

gtk_action_get_name(a)    == Registry[a].name
\* gimp_strip_uline (gtk_action_get_label (action))
gtk_action_get_label(a)   == Registry[a].label
gtk_action_get_tooltip(a) == Registry[a].tooltip

g_str_has_suffix(str, suffix) ==
  /\ Len(str) >= Len(suffix)
  /\ SubSeq(str, Len(str) - Len(suffix) + 1, Len(str)) = suffix

g_str_has_prefix(str, prefix) ==
  /\ Len(str) >= Len(prefix)
  /\ SubSeq(str, 1, Len(prefix)) = prefix

\* g_strstrip: the string without its leading and trailing white space
RECURSIVE g_strchug(_)
g_strchug(str) ==
  IF Len(str) > 0 /\ str[1] = " " THEN g_strchug(Tail(str)) ELSE str

RECURSIVE g_strchomp(_)
g_strchomp(str) ==
  IF Len(str) > 0 /\ str[Len(str)] = " "
  THEN g_strchomp(SubSeq(str, 1, Len(str) - 1))
  ELSE str

g_strstrip(str) == g_strchomp(g_strchug(str))

\* the keys a handler tells apart
Keyvals == {"Escape", "Return", "Up", "Down", "other"}

\* the texts the user gives the entry
Texts == { <<>>, <<"c","o">>, <<"c","o","p">> }

\* the keywords key_released searches for: the texts, and NULL
SearchKeywords == (Texts \ {<<>>}) \cup {NULL}

\* action_search_match_keyword (action, keyword, &section), a pure function
\* of the label and the tooltip of the action, tabulated
MatchOfAction ==
  [a \in Actions |->
    [keyword \in SearchKeywords |->
       action_search_match_keyword(gtk_action_get_label(a),
                                   gtk_action_get_tooltip(a), keyword, 0)]]

\* a slip: the NULL keyword gives the section of a match at the label start
match_action_null_ranked(a, keyword) ==
  IF keyword = NULL THEN [matched |-> TRUE, section |-> 1]
  ELSE MatchOfAction[a][keyword]

match_action(a, keyword) == MatchOfAction[a][keyword]

(***************************************************************************)
(* action_search_add_to_results_list                                       *)
(***************************************************************************)
Row(a, section, sens) ==
  [action |-> a, section |-> section, is_sensitive |-> sens[a]]

InsertBefore(store, i, row) ==
  SubSeq(store, 1, i - 1) \o <<row>> \o SubSeq(store, i, Len(store))

\* a slip: the new row goes before the first row of its own section
RECURSIVE next_section_not_less(_, _, _)
next_section_not_less(store, section, i) ==
  IF i > Len(store) THEN i
  ELSE IF store[i].section >= section THEN i
  ELSE next_section_not_less(store, section, i + 1)

\* the while loop: the index of the first row whose section is greater than
\* section, Len(store) + 1 (append) when there is none
RECURSIVE next_section(_, _, _)
next_section(store, section, i) ==
  IF i > Len(store) THEN i
  ELSE IF store[i].section > section THEN i
  ELSE next_section(store, section, i + 1)

\* a slip: the row is always appended
add_to_results_list_append(store, a, section, sens) ==
  IF Len(g_strstrip(gtk_action_get_label(a))) = 0
  THEN store
  ELSE Append(store, Row(a, section, sens))

\* the store after action_search_add_to_results_list (action, private, section)
action_search_add_to_results_list(store, a, section, sens) ==
  IF Len(g_strstrip(gtk_action_get_label(a))) = 0
  THEN store
  ELSE InsertBefore(store, next_section(store, section, 1),
                    Row(a, section, sens))

(***************************************************************************)
(* gimp_action_history_search (gimpaction-history.c): the recent actions   *)
(* that the matcher accepts for the keyword, in recency order; it is given *)
(* the configuration and leaves out the insensitive actions unless         *)
(* search_show_unavailable is set.                                         *)
(***************************************************************************)
RECURSIVE gimp_action_history_search(_, _, _, _)
gimp_action_history_search(keyword, hist, sens, show_unavailable) ==
  IF hist = <<>> THEN <<>>
  ELSE LET a    == Head(hist)
           rest == gimp_action_history_search(keyword, Tail(hist), sens,
                                              show_unavailable)
       IN  IF (sens[a] \/ show_unavailable)
              /\ match_action(a, keyword).matched
           THEN <<a>> \o rest
           ELSE rest

(***************************************************************************)
(* action_search_history_and_actions                                       *)
(***************************************************************************)
\* for (list = history_actions; ...) add_to_results_list (action, private, 0)
RECURSIVE add_history(_, _, _)
add_history(store, history_actions, sens) ==
  IF history_actions = <<>> THEN store
  ELSE add_history(
         action_search_add_to_results_list(store, Head(history_actions), 0, sens),
         Tail(history_actions), sens)

\* a slip: only the menus are passed over
is_structural_menu_only(name) ==
  g_str_has_suffix(name, <<"-","m","e","n","u">>)

\* the names the scan passes over
is_structural(name) ==
  \/ g_str_has_suffix(name, <<"-","m","e","n","u">>)
  \/ g_str_has_suffix(name, <<"-","p","o","p","u","p">>)
  \/ g_str_has_prefix(name, <<"c","o","n","t","e","x","t","-">>)
  \/ g_str_has_prefix(name, <<"p","l","u","g","-","i","n","-","r","e","c","e","n","t","-">>)

\* a slip: insensitive actions are listed whatever the configuration says
is_unavailable_never(a, sens, show_unavailable) == FALSE

\* ! gtk_action_get_sensitive (action) && ! config->search_show_unavailable
is_unavailable(a, sens, show_unavailable) ==
  ~sens[a] /\ ~show_unavailable

\* a slip: the history is not looked at
is_redundant_never(name, history_actions) == FALSE

\* the list3 loop: the name is that of an action of history_actions
is_redundant(name, history_actions) ==
  \E j \in 1..Len(history_actions) :
     gtk_action_get_name(history_actions[j]) = name

\* the list/list2 loops from action i of the registry on
RECURSIVE scan_actions(_, _, _, _, _, _)
scan_actions(store, i, keyword, history_actions, sens, show_unavailable) ==
  IF i > Len(Registry) THEN store
  ELSE LET name == gtk_action_get_name(i)
           m    == match_action(i, keyword)
           next ==
             IF is_structural(name) THEN store
             ELSE IF is_unavailable(i, sens, show_unavailable) THEN store
             ELSE IF m.matched /\ ~is_redundant(name, history_actions)
             THEN action_search_add_to_results_list(store, i, m.section, sens)
             ELSE store
       IN  scan_actions(next, i + 1, keyword, history_actions, sens,
                        show_unavailable)

\* the store after action_search_history_and_actions (keyword, private)
action_search_history_and_actions(store, keyword, hist, sens, show_unavailable) ==
  IF keyword = <<>> THEN store
  ELSE LET history_actions ==
             gimp_action_history_search(keyword, hist, sens, show_unavailable)
       IN  scan_actions(add_history(store, history_actions, sens), 1, keyword,
                        history_actions, sens, show_unavailable)

(***************************************************************************)
(* The handlers of the dialog                                              *)
(***************************************************************************)
Event(handler, keyval, a, section) ==
  [handler |-> handler, keyval |-> keyval, action |-> a, section |-> section]

\* a slip: the dialog is hidden and lives on
action_search_finalizer_hides == dialog' = "hidden"

\* action_search_finalizer: gtk_widget_destroy (private->dialog)
action_search_finalizer == dialog' = "destroyed"

\* a slip: the sensitivity of the action is not looked at
action_search_run_selected_unchecked ==
  IF selected # 0
  THEN /\ activated' = Append(activated, results[selected].action)
       /\ action_search_finalizer
  ELSE UNCHANGED <<activated, dialog>>

\* a slip: the dialog stays after the activation
action_search_run_selected_stays ==
  IF selected # 0
  THEN LET action == results[selected].action
       IN  IF ~sensitive[action]
           THEN UNCHANGED <<activated, dialog>>
           ELSE /\ activated' = Append(activated, action)
                /\ UNCHANGED dialog
  ELSE UNCHANGED <<activated, dialog>>

action_search_run_selected ==
  IF selected # 0
  THEN LET action == results[selected].action
       IN  IF ~sensitive[action]
           THEN UNCHANGED <<activated, dialog>>
           ELSE /\ activated' = Append(activated, action)
                /\ action_search_finalizer
  ELSE UNCHANGED <<activated, dialog>>

\* a slip: the rows of the search before stay in the store
gtk_list_store_clear_omitted(store) == store

\* gtk_list_store_clear: the store without its rows
gtk_list_store_clear(store) == <<>>

\* gtk_tree_selection_select_path (..., "0"): the first row, when there is one
select_first(store) == IF Len(store) > 0 THEN 1 ELSE 0

\* the entry takes the user's typing: its text changes before the key is
\* released
entry_changed(text) ==
  /\ dialog = "shown"
  /\ text # entry_text
  /\ entry_text' = text
  /\ last_event' = Event("entry_changed", "other", 0, 0)
  /\ UNCHANGED <<results, selected, list_view_visible, dialog, activated>>
  /\ UNCHANGED <<match_vars, env_vars, window_vars, parser_vars>>

\* "key-release-event" of the keyword entry
key_released(keyval) ==
  /\ dialog = "shown"
  /\ last_event' = Event("key_released", keyval, 0, 0)
  /\ CASE keyval = "Escape" ->
            /\ action_search_finalizer
            /\ UNCHANGED <<results, selected, list_view_visible, activated>>
       [] keyval = "Return" ->
            /\ action_search_run_selected
            /\ UNCHANGED <<results, selected, list_view_visible>>
       [] OTHER ->
            IF entry_text # <<>>
            THEN /\ list_view_visible' = TRUE
                 /\ results' = action_search_history_and_actions(
                                 gtk_list_store_clear(results), entry_text,
                                 history, sensitive, search_show_unavailable)
                 /\ selected' = select_first(results')
                 /\ UNCHANGED <<dialog, activated>>
            ELSE IF keyval = "Down"
            THEN /\ list_view_visible' = TRUE
                 /\ results' = action_search_history_and_actions(
                                 gtk_list_store_clear(results), NULL,
                                 history, sensitive, search_show_unavailable)
                 /\ selected' = select_first(results')
                 /\ UNCHANGED <<dialog, activated>>
            ELSE /\ list_view_visible' = FALSE
                 /\ UNCHANGED <<results, selected, dialog, activated>>
  /\ UNCHANGED entry_text
  /\ UNCHANGED <<match_vars, env_vars, window_vars, parser_vars>>

\* "key_press_event" of the result list; the list takes keys while shown
result_selected(keyval, text) ==
  /\ dialog = "shown"
  /\ list_view_visible
  /\ keyval # "other" => text = entry_text
  /\ last_event' = Event("result_selected", keyval, 0, 0)
  /\ CASE keyval = "Return" ->
            /\ action_search_run_selected
            /\ UNCHANGED <<entry_text, results, selected, list_view_visible>>
       [] keyval = "Escape" ->
            /\ action_search_finalizer
            /\ UNCHANGED <<entry_text, results, selected, list_view_visible,
                           activated>>
       [] keyval = "Up" ->
            \* on the first row the focus goes back to the entry; elsewhere
            \* the tree view moves the selection up
            /\ selected' = IF selected > 1 THEN selected - 1 ELSE selected
            /\ UNCHANGED <<entry_text, results, list_view_visible, dialog,
                           activated>>
       [] keyval = "Down" ->
            \* the tree view moves the selection down
            /\ selected' = IF selected < Len(results) THEN selected + 1
                           ELSE selected
            /\ UNCHANGED <<entry_text, results, list_view_visible, dialog,
                           activated>>
       [] OTHER ->
            \* the key press is handed to the entry
            /\ entry_text' = text
            /\ UNCHANGED <<results, selected, list_view_visible, dialog,
                           activated>>
  /\ UNCHANGED <<match_vars, env_vars, window_vars, parser_vars>>

\* "row-activated" of the result list
row_activated ==
  /\ dialog = "shown"
  /\ list_view_visible
  /\ Len(results) > 0
  /\ last_event' = Event("row_activated", "other", 0, 0)
  /\ action_search_run_selected
  /\ UNCHANGED <<entry_text, results, selected, list_view_visible>>
  /\ UNCHANGED <<match_vars, env_vars, window_vars, parser_vars>>

\* the user clicks a row of the shown list (row = 0: the selected row is
\* clicked again with Control held, which unselects it)
row_clicked(row) ==
  /\ dialog = "shown"
  /\ list_view_visible
  /\ row \in 0..Len(results)
  /\ row # selected
  /\ selected' = row
  /\ last_event' = Event("row_clicked", "other", 0, 0)
  /\ UNCHANGED <<entry_text, results, list_view_visible, dialog, activated>>
  /\ UNCHANGED <<match_vars, env_vars, window_vars, parser_vars>>

\* the application enables or disables an action while the dialog is open
Togglable == {edit_copy}

set_sensitive(a) ==
  /\ dialog = "shown"
  /\ a \in Togglable
  /\ sensitive' = [sensitive EXCEPT ![a] = ~sensitive[a]]
  /\ last_event' = Event("set_sensitive", "other", a, 0)
  /\ UNCHANGED <<history, search_show_unavailable>>
  /\ UNCHANGED <<entry_text, results, selected, list_view_visible, dialog,
                 activated>>
  /\ UNCHANGED <<match_vars, window_vars, parser_vars>>

(***************************************************************************)
(* window_scrolled                                                         *)
(***************************************************************************)
MinOpacity == 10
MaxOpacity == 100

MIN(a, b) == IF a < b THEN a ELSE b
MAX(a, b) == IF a > b THEN a ELSE b

ScrollDirections == {"GDK_SCROLL_UP", "GDK_SCROLL_DOWN",
                     "GDK_SCROLL_LEFT", "GDK_SCROLL_RIGHT"}

\* a slip: the new opacity is not clamped
new_opacity_unclamped(opacity, direction) ==
  CASE direction = "GDK_SCROLL_UP"   -> opacity + 5
    [] direction = "GDK_SCROLL_DOWN" -> opacity - 5
    [] OTHER                         -> opacity

\* new_opacity after the switch on scroll->direction
new_opacity(opacity, direction) ==
  CASE direction = "GDK_SCROLL_UP"   -> MIN(opacity + 5, MaxOpacity)
    [] direction = "GDK_SCROLL_DOWN" -> MAX(opacity - 5, MinOpacity)
    [] OTHER                         -> opacity

\* "scroll-event" of the dialog; control: scroll->state & GDK_CONTROL_MASK
window_scrolled(direction, control) ==
  /\ dialog = "shown"
  /\ last_scroll' = [direction |-> direction, control |-> control]
  /\ IF control /\ new_opacity(search_dialog_opacity, direction)
                     # search_dialog_opacity
     THEN /\ search_dialog_opacity' =
               new_opacity(search_dialog_opacity, direction)
          /\ window_opacity' = search_dialog_opacity'
     ELSE UNCHANGED <<search_dialog_opacity, window_opacity>>
  /\ UNCHANGED geometry_vars
  /\ UNCHANGED <<match_vars, env_vars, dialog_vars, parser_vars>>

(***************************************************************************)
(* action_search_update_position and window_configured                     *)
(*                                                                         *)
(* The geometry of the window itself belongs to the window manager: the    *)
(* handlers read it (gdk_window_get_geometry, gtk_window_get_position,     *)
(* gtk_window_get_size) and it is an input of the actions.  A geometry is  *)
(* a record [x, y, width, height].                                         *)
(***************************************************************************)
ScreenWidth  == 3    \* gdk_screen_get_width (screen)
ScreenHeight == 2    \* gdk_screen_get_height (screen)

Geometry(x, y, width, height) ==
  [x |-> x, y |-> y, width |-> width, height |-> height]

GeometryEvent(handler, type, visible, window) ==
  [handler |-> handler, type |-> type, visible |-> visible, window |-> window]

\* "/" on gint: the quotient is truncated toward zero
c_div(a, b) == IF a >= 0 THEN a \div b ELSE -((-a) \div b)

\* the geometry of the configuration after action_search_update_position
action_search_update_position(config, screen_width, screen_height, parent) ==
  LET width  == IF config.width < 0 THEN c_div(parent.width, 2)
                ELSE IF config.width > screen_width THEN parent.width
                ELSE config.width
      height == IF config.height < 0 THEN c_div(parent.height, 2)
                ELSE IF config.height > screen_height THEN parent.height
                ELSE config.height
      x      == IF config.x < 0 \/ config.x + width > screen_width
                THEN parent.x + c_div(parent.width - width, 2)
                ELSE config.x
      y      == IF config.y < 0 \/ config.y + height > screen_height
                THEN parent.y + c_div(parent.height - height, 2)
                ELSE config.y
  IN  Geometry(x, y, width, height)

\* action_search_dialog_create, as far as the window goes: the position is
\* brought up to date, the window gets the opacity of the configuration and
\* the dialog is shown with its list view hidden; parent is the geometry of
\* the active window of the screen
action_search_dialog_create(parent) ==
  /\ dialog = "none"
  /\ LET g == action_search_update_position(
                Geometry(search_dialog_x, search_dialog_y,
                         search_dialog_width, search_dialog_height),
                ScreenWidth, ScreenHeight, parent)
     IN  /\ search_dialog_x' = g.x
         /\ search_dialog_y' = g.y
         /\ search_dialog_width' = g.width
         /\ search_dialog_height' = g.height
  /\ window_opacity' = search_dialog_opacity
  /\ dialog' = "shown"
  /\ last_event' = Event("action_search_dialog_create", "other", 0, 0)
  /\ geometry_event' = GeometryEvent("action_search_update_position", "none",
                                     FALSE, parent)
  /\ UNCHANGED <<entry_text, results, selected, list_view_visible, activated>>
  /\ UNCHANGED <<search_dialog_opacity, last_scroll>>
  /\ UNCHANGED <<match_vars, env_vars, parser_vars>>

\* a slip: the height is stored whether or not the list is shown
configured_height_always(height) == height

\* config->search_dialog_height after a configure event that found the
\* window this high
configured_height(height) ==
  IF list_view_visible THEN height ELSE search_dialog_height

\* "event" of the dialog; type: event->type, visible:
\* gtk_widget_get_visible (window), window: what gtk_window_get_position and
\* gtk_window_get_size give
window_configured(type, visible, window) ==
  /\ dialog = "shown"
  /\ geometry_event' = GeometryEvent("window_configured", type, visible, window)
  /\ IF type = "GDK_CONFIGURE" /\ visible
     THEN /\ search_dialog_x' = IF window.x < 0 THEN 0 ELSE window.x
          /\ search_dialog_y' = IF window.y < 0 THEN 0 ELSE window.y
          /\ search_dialog_width' = window.width
          /\ search_dialog_height' = configured_height(window.height)
     ELSE UNCHANGED <<search_dialog_x, search_dialog_y, search_dialog_width,
                      search_dialog_height>>
  /\ UNCHANGED <<search_dialog_opacity, window_opacity, last_scroll>>
  /\ UNCHANGED <<match_vars, env_vars, dialog_vars, parser_vars>>

(***************************************************************************)
(* gimplanguagestore-parser.c: the attributes of an iso_639_entry          *)
(*                                                                         *)
(* The attributes of an element are a sequence of records [name, value];   *)
(* element and attribute names are only compared, and are strings; values  *)
(* are sequences of characters.                                            *)
(***************************************************************************)
MaxAttrs  == 3     \* attributes of an entry in EntrySpec
MaxEvents == 6     \* parser callbacks of one parse in ParserSpec

zh    == <<"z","h">>
en    == <<"e","n">>
zh_CN == <<"z","h","_","C","N">>
zh_TW == <<"z","h","_","T","W">>
zh_HK == <<"z","h","_","H","K">>
Chinese == <<"C","h","i","n","e","s","e">>

\* a slip: iso_639_1_code is only taken when no code was chosen before
RECURSIVE entry_attributes_first_wins(_, _, _)
entry_attributes_first_wins(attrs, lang, code) ==
  IF attrs = <<>> THEN [lang |-> lang, code |-> code]
  ELSE LET a == Head(attrs)
       IN  IF a.name = "name"
           THEN entry_attributes_first_wins(Tail(attrs), a.value, code)
           ELSE IF a.name \in {"iso_639_2B_code", "iso_639_2T_code",
                               "iso_639_1_code"} /\ code = NULL
           THEN entry_attributes_first_wins(Tail(attrs), lang, a.value)
           ELSE entry_attributes_first_wins(Tail(attrs), lang, code)

\* the while loop of iso_codes_parser_entry: lang and code after the
\* attributes attrs, from the lang and code before them
RECURSIVE entry_attributes(_, _, _)
entry_attributes(attrs, lang, code) ==
  IF attrs = <<>> THEN [lang |-> lang, code |-> code]
  ELSE LET a == Head(attrs)
       IN  IF a.name = "name"
           THEN entry_attributes(Tail(attrs), a.value, code)
           ELSE IF a.name = "iso_639_2B_code" /\ code = NULL
           THEN entry_attributes(Tail(attrs), lang, a.value)
           ELSE IF a.name = "iso_639_2T_code" /\ code = NULL
           THEN entry_attributes(Tail(attrs), lang, a.value)
           ELSE IF a.name = "iso_639_1_code"
           THEN entry_attributes(Tail(attrs), lang, a.value)
           ELSE entry_attributes(Tail(attrs), lang, code)

(***************************************************************************)
(* gimp_language_store_self_l10n                                           *)
(***************************************************************************)
\* setlocale (LC_ALL, NULL): the name of the locale of the process
setlocale_LC_ALL == <<"f","r">>

\* the message catalogs of the domain "iso_639": language, msgid, msgstr
Asturian == <<"A","s","t","u","r","i","a","n">>
English  == <<"E","n","g","l","i","s","h">>
Bokmal   == <<"B","o","k","m","a","l",";","N","o","r","w","e","g","i","a","n">>

iso_639_catalogs ==
  { << zh_CN, Chinese, <<"Z","h","o","n","g","w","e","n",";","H","a","n","y","u">> >>,
    << zh_HK, Chinese, <<"Z","u","n","g","m","a","n">> >>,
    << <<"a","s","t">>, Asturian, <<"A","s","t","u","r","i","a","n","u",";","B","a","b","l","e">> >>,
    << <<"f","r">>, Chinese, <<"C","h","i","n","o","i","s">> >>,
    << <<"f","r">>, Asturian, <<"A","s","t","u","r","i","e","n">> >>,
    << <<"f","r">>, English, <<"A","n","g","l","a","i","s">> >> }

\* the languages of a value of LANGUAGE, which separates them by colons
RECURSIVE split_colon(_, _)
split_colon(value, first) ==
  IF value = <<>> THEN <<first>>
  ELSE IF Head(value) = ":"
  THEN <<first>> \o split_colon(Tail(value), <<>>)
  ELSE split_colon(Tail(value), Append(first, Head(value)))

\* the translation of msgid in the first of the languages that has one,
\* msgid itself when none has
RECURSIVE gettext_in(_, _)
gettext_in(languages, msgid) ==
  IF languages = <<>> THEN msgid
  ELSE IF \E t \in iso_639_catalogs : t[1] = Head(languages) /\ t[2] = msgid
  THEN (CHOOSE t \in iso_639_catalogs :
           t[1] = Head(languages) /\ t[2] = msgid)[3]
  ELSE gettext_in(Tail(languages), msgid)

\* dgettext ("iso_639", msgid) while LANGUAGE has the value language
dgettext(msgid, language) ==
  IF language = NULL
  THEN gettext_in(<<setlocale_LC_ALL>>, msgid)
  ELSE gettext_in(split_colon(language, <<>>), msgid)

\* g_strdup_printf ("%s:%s:%s", code, current_lang, setlocale (LC_ALL, NULL)),
\* or g_strdup (code) when LANGUAGE was not set
temp_lang(code, current_lang) ==
  IF current_lang # NULL
  THEN code \o <<":">> \o current_lang \o <<":">> \o setlocale_LC_ALL
  ELSE code

\* a slip: LANGUAGE is only put back when it was set before
LANGUAGE_restored_if_set(current_lang, temp) ==
  IF current_lang # NULL THEN current_lang ELSE temp

\* LANGUAGE after g_setenv ("LANGUAGE", current_lang, TRUE) or
\* g_unsetenv ("LANGUAGE"), from its value temp during the lookup
LANGUAGE_restored(current_lang, temp) ==
  IF current_lang # NULL THEN current_lang ELSE NULL

\* gimp_language_store_add (store, label, code)
gimp_language_store_add(store, label, code) ==
  Append(store, [label |-> label, code |-> code])

\* a slip: the name is cut after the semicolon
first_name_with_semicolon(lang) ==
  LET semicolon == strchr(lang, ";")
  IN  IF semicolon # 0 THEN SubSeq(lang, 1, semicolon) ELSE lang

\* g_strndup (lang, semicolon - lang), lang itself without a semicolon
first_name(lang) ==
  LET semicolon == strchr(lang, ";")
  IN  IF semicolon # 0 THEN SubSeq(lang, 1, semicolon - 1) ELSE lang

\* gimp_language_store_self_l10n (store, lang, code); st is the store, the
\* value of LANGUAGE and the number of writes of LANGUAGE before the call,
\* the result is these after it
gimp_language_store_self_l10n(st, lang, code) ==
  IF lang # NULL /\ lang # <<>> /\ code # NULL /\ code # <<>>
  THEN IF code # en
       THEN LET current_lang == st.LANGUAGE
                temp         == temp_lang(code, current_lang)
                translated   == dgettext(lang, temp)
            IN  [store    |-> gimp_language_store_add(
                                st.store, first_name(translated), code),
                 LANGUAGE |-> LANGUAGE_restored(current_lang, temp),
                 writes   |-> st.writes + 2]
       ELSE [st EXCEPT !.store =
               gimp_language_store_add(st.store, first_name(lang), code)]
  ELSE st

\* a slip: the entry of the base language is added as well
zh_entry_and_regions(st, lang, code) ==
  gimp_language_store_self_l10n(
    gimp_language_store_self_l10n(
      gimp_language_store_self_l10n(
        gimp_language_store_self_l10n(st, lang, code),
        Chinese, zh_CN),
      Chinese, zh_TW),
    Chinese, zh_HK)

\* a slip: the regions are given the name of the entry
zh_regions_entry_name(st, lang, code) ==
  gimp_language_store_self_l10n(
    gimp_language_store_self_l10n(
      gimp_language_store_self_l10n(st, lang, zh_CN),
      lang, zh_TW),
    lang, zh_HK)

\* the three calls for the code "zh"
zh_regions(st, lang, code) ==
  gimp_language_store_self_l10n(
    gimp_language_store_self_l10n(
      gimp_language_store_self_l10n(st, Chinese, zh_CN),
      Chinese, zh_TW),
    Chinese, zh_HK)

\* iso_codes_parser_entry (parser, names, values)
iso_codes_parser_entry(st, attrs) ==
  LET r == entry_attributes(attrs, NULL, NULL)
  IN  IF r.code = zh
      THEN zh_regions(st, r.lang, r.code)
      ELSE gimp_language_store_self_l10n(st, r.lang, r.code)

(***************************************************************************)
(* gimplanguagestore-parser.c: the callbacks of the XML parser             *)
(***************************************************************************)
ISO_CODES_START      == "ISO_CODES_START"
ISO_CODES_IN_ENTRIES == "ISO_CODES_IN_ENTRIES"
ISO_CODES_IN_ENTRY   == "ISO_CODES_IN_ENTRY"
ISO_CODES_IN_UNKNOWN == "ISO_CODES_IN_UNKNOWN"

ParserEvent(kind, element_name, attrs, state) ==
  [kind |-> kind, name |-> element_name, attrs |-> attrs, state |-> state]

\* a slip: the state is saved at every depth
iso_codes_parser_start_unknown_always_saves ==
  /\ last_known_state' = parser_state
  /\ parser_state' = ISO_CODES_IN_UNKNOWN
  /\ unknown_depth' = unknown_depth + 1

\* a slip: the state to come back to is not saved
iso_codes_parser_start_unknown_never_saves ==
  /\ UNCHANGED last_known_state
  /\ parser_state' = ISO_CODES_IN_UNKNOWN
  /\ unknown_depth' = unknown_depth + 1

iso_codes_parser_start_unknown ==
  /\ last_known_state' = IF unknown_depth = 0 THEN parser_state
                         ELSE last_known_state
  /\ parser_state' = ISO_CODES_IN_UNKNOWN
  /\ unknown_depth' = unknown_depth + 1

\* a slip: the depth is not looked at, the first end-tag resumes
iso_codes_parser_end_unknown_at_once ==
  IF unknown_depth > 0 /\ parser_state = ISO_CODES_IN_UNKNOWN
  THEN /\ unknown_depth' = unknown_depth - 1
       /\ parser_state' = last_known_state
       /\ UNCHANGED <<last_known_state, parse_pc>>
  ELSE /\ parse_pc' = "aborted"
       /\ UNCHANGED <<unknown_depth, parser_state, last_known_state>>

\* g_assert stops the program when its condition does not hold
iso_codes_parser_end_unknown ==
  IF unknown_depth > 0 /\ parser_state = ISO_CODES_IN_UNKNOWN
  THEN /\ unknown_depth' = unknown_depth - 1
       /\ parser_state' = IF unknown_depth - 1 = 0 THEN last_known_state
                          ELSE parser_state
       /\ UNCHANGED <<last_known_state, parse_pc>>
  ELSE /\ parse_pc' = "aborted"
       /\ UNCHANGED <<unknown_depth, parser_state, last_known_state>>

\* the XML parser meets a start-tag: it opens the element and calls
\* iso_codes_parser_start_element; the cases of the switch fall through
iso_codes_parser_start_element(element_name, attrs) ==
  /\ parse_pc = "parsing"
  /\ Len(parse_log) < MaxEvents
  /\ open_elements' = Append(open_elements, element_name)
  /\ IF parser_state = ISO_CODES_START /\ element_name = "iso_639_entries"
     THEN /\ parser_state' = ISO_CODES_IN_ENTRIES
          /\ UNCHANGED <<last_known_state, unknown_depth, language_store,
                         LANGUAGE, LANGUAGE_writes>>
     ELSE IF parser_state \in {ISO_CODES_START, ISO_CODES_IN_ENTRIES}
             /\ element_name = "iso_639_entry"
     THEN /\ parser_state' = ISO_CODES_IN_ENTRY
          /\ LET r == iso_codes_parser_entry(
                        [store |-> language_store, LANGUAGE |-> LANGUAGE,
                         writes |-> LANGUAGE_writes], attrs)
             IN  /\ language_store' = r.store
                 /\ LANGUAGE' = r.LANGUAGE
                 /\ LANGUAGE_writes' = r.writes
          /\ UNCHANGED <<last_known_state, unknown_depth>>
     ELSE /\ iso_codes_parser_start_unknown
          /\ UNCHANGED <<language_store, LANGUAGE, LANGUAGE_writes>>
  /\ parse_log' = Append(parse_log,
                         ParserEvent("start", element_name, attrs, parser_state'))
  /\ UNCHANGED <<HAVE_ISO_CODES, iso_639_xml, parse_pc, parse_success,
                 parse_error, arg_attrs>>
  /\ UNCHANGED <<match_vars, env_vars, dialog_vars, window_vars>>

\* the switch of iso_codes_parser_end_element on parser->state
end_element_switch ==
  CASE parser_state = ISO_CODES_START ->
         \* g_warning ("shouldn't get here")
         UNCHANGED <<parser_state, last_known_state, unknown_depth, parse_pc>>
    [] parser_state = ISO_CODES_IN_ENTRIES ->
         /\ parser_state' = ISO_CODES_START
         /\ UNCHANGED <<last_known_state, unknown_depth, parse_pc>>
    [] parser_state = ISO_CODES_IN_ENTRY ->
         /\ parser_state' = ISO_CODES_IN_ENTRIES
         /\ UNCHANGED <<last_known_state, unknown_depth, parse_pc>>
    [] parser_state = ISO_CODES_IN_UNKNOWN ->
         iso_codes_parser_end_unknown

\* the XML parser meets the end-tag of the innermost open element: it calls
\* iso_codes_parser_end_element and closes the element
iso_codes_parser_end_element ==
  /\ parse_pc = "parsing"
  /\ Len(parse_log) < MaxEvents
  /\ open_elements # <<>>
  /\ open_elements' = SubSeq(open_elements, 1, Len(open_elements) - 1)
  /\ end_element_switch
  /\ parse_log' = Append(parse_log,
                         ParserEvent("end", open_elements[Len(open_elements)],
                                     <<>>, parser_state'))
  /\ UNCHANGED <<HAVE_ISO_CODES, iso_639_xml, language_store, LANGUAGE,
                 LANGUAGE_writes, parse_success, parse_error, arg_attrs>>
  /\ UNCHANGED <<match_vars, env_vars, dialog_vars, window_vars>>

\* iso_codes_parser_end_element called with no element open: the XML parser
\* never does so, a caller that sends the events in any order does
iso_codes_parser_end_element_unopened ==
  /\ parse_pc = "parsing"
  /\ Len(parse_log) < MaxEvents
  /\ open_elements = <<>>
  /\ end_element_switch
  /\ parse_log' = Append(parse_log,
                         ParserEvent("end", "none", <<>>, parser_state'))
  /\ UNCHANGED <<HAVE_ISO_CODES, iso_639_xml, open_elements, language_store,
                 LANGUAGE, LANGUAGE_writes, parse_success, parse_error,
                 arg_attrs>>
  /\ UNCHANGED <<match_vars, env_vars, dialog_vars, window_vars>>

(***************************************************************************)
(* gimp_language_store_parse_iso_codes                                     *)
(***************************************************************************)
\* a slip: the function fails when the build has no ISO-codes data
return_without_iso_codes_fails == [success |-> FALSE, error |-> NULL]

\* return TRUE after the #endif: all of the function without HAVE_ISO_CODES
return_without_iso_codes == [success |-> TRUE, error |-> NULL]

\* gimp_xml_parser_parse_file (gimpxmlparser.c) for a file that is not
\* there: no callback is called, the parse succeeds and sets no error
gimp_xml_parser_parse_file_absent == [success |-> TRUE, error |-> NULL]

\* gimp_xml_parser_parse_file at the end of the file: an element left open
\* is an error of the document
gimp_xml_parser_parse_file_end(open) ==
  IF open = <<>> THEN [success |-> TRUE, error |-> NULL]
  ELSE [success |-> FALSE, error |-> <<"G_MARKUP_ERROR_PARSE">>]

\* the call, up to the first callback of the XML parser
gimp_language_store_parse_iso_codes ==
  /\ parse_pc = "idle"
  /\ IF ~HAVE_ISO_CODES
     THEN /\ parse_pc' = "returned"
          /\ parse_success' = return_without_iso_codes.success
          /\ parse_error' = return_without_iso_codes.error
          /\ UNCHANGED <<parser_state, last_known_state, unknown_depth>>
     ELSE \* IsoCodesParser parser = { 0, };
          /\ parser_state' = ISO_CODES_START
          /\ last_known_state' = ISO_CODES_START
          /\ unknown_depth' = 0
          /\ IF iso_639_xml
             THEN /\ parse_pc' = "parsing"
                  /\ UNCHANGED <<parse_success, parse_error>>
             ELSE /\ parse_pc' = "returned"
                  /\ parse_success' = gimp_xml_parser_parse_file_absent.success
                  /\ parse_error' = gimp_xml_parser_parse_file_absent.error
  /\ UNCHANGED <<HAVE_ISO_CODES, iso_639_xml, open_elements, language_store,
                 LANGUAGE, LANGUAGE_writes, parse_log, arg_attrs>>
  /\ UNCHANGED <<match_vars, env_vars, dialog_vars, window_vars>>

\* the XML parser reaches the end of the file and the call returns
parse_file_returns ==
  /\ parse_pc = "parsing"
  /\ parse_pc' = "returned"
  /\ parse_success' = gimp_xml_parser_parse_file_end(open_elements).success
  /\ parse_error' = gimp_xml_parser_parse_file_end(open_elements).error
  /\ UNCHANGED <<HAVE_ISO_CODES, iso_639_xml, open_elements, parser_state,
                 last_known_state, unknown_depth, language_store, LANGUAGE,
                 LANGUAGE_writes, parse_log, arg_attrs>>
  /\ UNCHANGED <<match_vars, env_vars, dialog_vars, window_vars>>

(***************************************************************************)
(* Initial values                                                          *)
(***************************************************************************)
MatchIdle ==
  /\ arg_label = <<>>
  /\ arg_tooltip = NULL
  /\ arg_keyword = NULL
  /\ pc = "idle"
  /\ ret_matched = FALSE
  /\ ret_section = 0

HistoryCandidates == {edit_copy, plug_in_blank, tools_crop}

\* the histories: up to MaxHistory different actions
Histories ==
  {h \in UNION {[1..n -> HistoryCandidates] : n \in 0..MaxHistory} :
     \A i, j \in 1..Len(h) : i # j => h[i] # h[j]}

EnvInit ==
  /\ sensitive \in {f \in [Actions -> BOOLEAN] :
                      \A a \in Actions \ Togglable : f[a]}
  /\ history \in Histories
  /\ search_show_unavailable \in BOOLEAN

EnvIdle ==
  /\ sensitive = [a \in Actions |-> TRUE]
  /\ history = <<>>
  /\ search_show_unavailable = FALSE

\* the dialog after action_search_dialog_create: the list view is not shown
DialogInit ==
  /\ entry_text = <<>>
  /\ results = <<>>
  /\ selected = 0
  /\ list_view_visible = FALSE
  /\ dialog = "shown"
  /\ activated = <<>>
  /\ last_event = Event("action_search_dialog_create", "other", 0, 0)

\* the window after action_search_dialog_create, which gives it the opacity
\* of the configuration
NoGeometryEvent ==
  GeometryEvent("none", "none", FALSE, Geometry(0, 0, 0, 0))

\* a geometry that action_search_update_position leaves as it is: the
\* dialog fills the screen
GeometryIdle ==
  /\ search_dialog_x = 0
  /\ search_dialog_y = 0
  /\ search_dialog_width = ScreenWidth
  /\ search_dialog_height = ScreenHeight
  /\ geometry_event = NoGeometryEvent

WindowInit ==
  /\ search_dialog_opacity \in MinOpacity..MaxOpacity
  /\ window_opacity = search_dialog_opacity
  /\ last_scroll = [direction |-> "none", control |-> FALSE]
  /\ GeometryIdle

\* a window is fully opaque until it is given an opacity
OpacityIdle ==
  /\ search_dialog_opacity = MaxOpacity
  /\ window_opacity = search_dialog_opacity
  /\ last_scroll = [direction |-> "none", control |-> FALSE]

WindowIdle ==
  /\ OpacityIdle
  /\ GeometryIdle

\* before action_search_dialog_create
DialogClosed ==
  /\ entry_text = <<>>
  /\ results = <<>>
  /\ selected = 0
  /\ list_view_visible = FALSE
  /\ dialog = "none"
  /\ activated = <<>>
  /\ last_event = Event("none", "other", 0, 0)

\* before gimp_language_store_parse_iso_codes is called: the store is empty
\* and *error is NULL
ParserInit ==
  /\ parse_pc = "idle"
  /\ open_elements = <<>>
  /\ parser_state = ISO_CODES_START
  /\ last_known_state = ISO_CODES_START
  /\ unknown_depth = 0
  /\ language_store = <<>>
  /\ LANGUAGE_writes = 0
  /\ parse_success = FALSE
  /\ parse_error = NULL
  /\ parse_log = <<>>

ParserIdle ==
  /\ ParserInit
  /\ arg_attrs = <<>>
  /\ HAVE_ISO_CODES = TRUE
  /\ iso_639_xml = TRUE
  /\ LANGUAGE = NULL

(***************************************************************************)
(* MatchSpec: the two functions applied to bounded inputs                  *)
(***************************************************************************)
LabelChars == {"a", "B", " "}
KeyChars   == {"A", "b"}
TipChars   == {"a", "B"}

StringsUpTo(chars, n) == UNION {[1..k -> chars] : k \in 0..n}

Gaussian_Blur     == <<"G","a","u","s","s","i","a","n"," ","B","l","u","r">>
Feather_Selection == <<"F","e","a","t","h","e","r"," ",
                       "S","e","l","e","c","t","i","o","n">>

\* the inputs the documentation names
ExampleInputs ==
  { [label |-> Gaussian_Blur, tooltip |-> NULL, keyword |-> <<"g","b">>],
    [label |-> Feather_Selection, tooltip |-> NULL, keyword |-> <<"f","t","r">>] }

MatchInputs ==
  [label   : StringsUpTo(LabelChars, MaxLabelLen),
   tooltip : {NULL} \cup StringsUpTo(TipChars, MaxTipLen),
   keyword : {NULL} \cup StringsUpTo(KeyChars, MaxKeyLen)]
  \cup ExampleInputs

\* the caller's section variable before the call: a value no rule stores
SectionUnset == MaxSection + 1

MatchInit ==
  /\ \E in \in MatchInputs :
       /\ arg_label = in.label
       /\ arg_tooltip = in.tooltip
       /\ arg_keyword = in.keyword
  /\ pc = "start"
  /\ ret_matched = FALSE
  /\ ret_section = SectionUnset
  /\ EnvIdle
  /\ DialogInit
  /\ WindowIdle
  /\ ParserIdle

MatchKeywordCall ==
  /\ pc = "start"
  /\ LET r == action_search_match_keyword(arg_label, arg_tooltip,
                                          arg_keyword, ret_section)
     IN  /\ ret_matched' = r.matched
         /\ ret_section' = r.section
  /\ pc' = "matched"
  /\ UNCHANGED <<arg_label, arg_tooltip, arg_keyword>>
  /\ UNCHANGED <<env_vars, dialog_vars, window_vars, parser_vars>>

FuzzyMatchCall ==
  /\ pc = "start"
  /\ arg_keyword # NULL
  /\ ret_matched' = action_fuzzy_match(arg_label, arg_keyword)
  /\ pc' = "fuzzy"
  /\ UNCHANGED <<arg_label, arg_tooltip, arg_keyword, ret_section>>
  /\ UNCHANGED <<env_vars, dialog_vars, window_vars, parser_vars>>

MatchNext == MatchKeywordCall \/ FuzzyMatchCall

MatchSpec == MatchInit /\ [][MatchNext]_vars

(***************************************************************************)
(* ListSpec: action_search_add_to_results_list called with any action and  *)
(* any section                                                             *)
(***************************************************************************)
ListActions == {edit_copy, plug_in_blank, tools_crop}

ListInit ==
  /\ MatchIdle
  /\ EnvInit
  /\ history = <<>>
  /\ search_show_unavailable = FALSE
  /\ DialogInit
  /\ WindowIdle
  /\ ParserIdle

AddCall(a, section) ==
  /\ Len(results) < MaxRows
  /\ results' = action_search_add_to_results_list(results, a, section, sensitive)
  /\ last_event' = Event("action_search_add_to_results_list", "other", a, section)
  /\ UNCHANGED <<entry_text, selected, list_view_visible, dialog, activated>>
  /\ UNCHANGED <<match_vars, env_vars, window_vars, parser_vars>>

ListNext == \E a \in ListActions, section \in 0..MaxSection : AddCall(a, section)

ListSpec == ListInit /\ [][ListNext]_vars

(***************************************************************************)
(* Spec: one session of the dialog                                         *)
(***************************************************************************)
Init ==
  /\ MatchIdle
  /\ EnvInit
  /\ DialogInit
  /\ WindowIdle
  /\ ParserIdle

Next ==
  \/ \E text \in Texts : entry_changed(text)
  \/ \E keyval \in Keyvals : key_released(keyval)
  \/ \E keyval \in Keyvals, text \in Texts : result_selected(keyval, text)
  \/ row_activated
  \/ \E row \in 0..Len(Registry) : row_clicked(row)
  \/ \E a \in Actions : set_sensitive(a)

Spec == Init /\ [][Next]_vars

(***************************************************************************)
(* WindowSpec: scroll events on the window of the dialog                   *)
(***************************************************************************)
WindowSpecInit ==
  /\ MatchIdle
  /\ EnvIdle
  /\ DialogInit
  /\ WindowInit
  /\ ParserIdle

WindowNext ==
  \E direction \in ScrollDirections, control \in BOOLEAN :
     window_scrolled(direction, control)

WindowSpec == WindowSpecInit /\ [][WindowNext]_vars

(***************************************************************************)
(* PositionSpec: the dialog is created with any persisted geometry, the    *)
(* active window lying within the screen                                   *)
(***************************************************************************)
\* the persisted values: from below 0 to beyond the screen
PersistedXs == -1..(ScreenWidth + 1)
PersistedYs == -1..(ScreenHeight + 1)

\* the geometries of a parent window that lies within the screen
Parents ==
  {g \in [x : 0..ScreenWidth, y : 0..ScreenHeight,
           width : 1..ScreenWidth, height : 1..ScreenHeight] :
     g.x + g.width <= ScreenWidth /\ g.y + g.height <= ScreenHeight}

PositionInit ==
  /\ MatchIdle
  /\ EnvIdle
  /\ DialogClosed
  /\ OpacityIdle
  /\ search_dialog_x \in PersistedXs
  /\ search_dialog_y \in PersistedYs
  /\ search_dialog_width \in PersistedXs
  /\ search_dialog_height \in PersistedYs
  /\ geometry_event = NoGeometryEvent
  /\ ParserIdle

PositionNext == \E parent \in Parents : action_search_dialog_create(parent)

PositionSpec == PositionInit /\ [][PositionNext]_vars

(***************************************************************************)
(* ConfigureSpec: events on the window of the created dialog, while the    *)
(* keys released in the entry show and hide the list                       *)
(***************************************************************************)
EventTypes == {"GDK_CONFIGURE", "GDK_FOCUS_CHANGE"}

\* what the window manager makes of the window: it may lie partly off the
\* screen; the height 1 is that of the dialog without its list
WindowGeometries ==
  [x : {-1, 0, ScreenWidth - 1}, y : {-1, ScreenHeight - 1},
   width : {1, ScreenWidth}, height : {1, ScreenHeight}]

\* the dialog was created with a geometry that lay within the screen
ConfigureInit ==
  /\ MatchIdle
  /\ EnvIdle
  /\ DialogInit
  /\ OpacityIdle
  /\ search_dialog_width \in 1..ScreenWidth
  /\ search_dialog_x \in 0..(ScreenWidth - search_dialog_width)
  /\ search_dialog_height \in 1..ScreenHeight
  /\ search_dialog_y \in 0..(ScreenHeight - search_dialog_height)
  /\ geometry_event = NoGeometryEvent
  /\ ParserIdle

ConfigureNext ==
  \/ \E type \in EventTypes, visible \in BOOLEAN, window \in WindowGeometries :
        window_configured(type, visible, window)
  \/ \E keyval \in {"Down", "other"} : key_released(keyval)

ConfigureSpec == ConfigureInit /\ [][ConfigureNext]_vars

(***************************************************************************)
(* EntrySpec: iso_codes_parser_entry applied to bounded attribute lists    *)
(***************************************************************************)
CodeAttrNames == {"iso_639_2B_code", "iso_639_2T_code", "iso_639_1_code"}
AttrNames     == {"name", "common_name"} \cup CodeAttrNames

NameValues == {<<>>, English, Asturian, Chinese, Bokmal}
CodeValues == {<<>>, zh, en, <<"a","s","t">>}

Attributes ==
  {[name |-> "name", value |-> v] : v \in NameValues}
  \cup {[name |-> n, value |-> v] : n \in CodeAttrNames, v \in CodeValues}
  \cup {[name |-> "common_name", value |-> <<"x">>]}

\* the attribute lists of an element: no name twice
AttrLists ==
  {attrs \in UNION {[1..n -> Attributes] : n \in 0..MaxAttrs} :
     \A i, j \in 1..Len(attrs) : i # j => attrs[i].name # attrs[j].name}

\* the values of LANGUAGE: not set, set to nothing, set to a language
LanguageValues == {NULL, <<>>, <<"f","r">>, <<"d","e">>}

EntryInit ==
  /\ MatchIdle
  /\ EnvIdle
  /\ DialogInit
  /\ WindowIdle
  /\ ParserInit
  /\ HAVE_ISO_CODES = TRUE
  /\ iso_639_xml = TRUE
  /\ LANGUAGE \in LanguageValues
  /\ arg_attrs \in AttrLists

EntryCall ==
  /\ parse_pc = "idle"
  /\ LET r == iso_codes_parser_entry(
                [store |-> language_store, LANGUAGE |-> LANGUAGE,
                 writes |-> LANGUAGE_writes], arg_attrs)
     IN  /\ language_store' = r.store
         /\ LANGUAGE' = r.LANGUAGE
         /\ LANGUAGE_writes' = r.writes
  /\ parse_pc' = "entry_returned"
  /\ UNCHANGED <<HAVE_ISO_CODES, iso_639_xml, open_elements, parser_state,
                 last_known_state, unknown_depth, parse_success, parse_error,
                 parse_log, arg_attrs>>
  /\ UNCHANGED <<match_vars, env_vars, dialog_vars, window_vars>>

EntryNext == EntryCall

EntrySpec == EntryInit /\ [][EntryNext]_vars

(***************************************************************************)
(* ParserSpec: one call of gimp_language_store_parse_iso_codes, the XML    *)
(* parser calling back for the tags of the document                        *)
(***************************************************************************)
ElementNames == {"iso_639_entries", "iso_639_entry", "other"}

\* the attribute lists of the entries of the documents
DocAttrs ==
  { << [name |-> "name", value |-> Chinese],
       [name |-> "iso_639_1_code", value |-> zh] >>,
    << [name |-> "iso_639_2B_code", value |-> <<"a","s","t">>],
       [name |-> "name", value |-> Asturian] >> }

ElementAttrs(element_name) ==
  IF element_name = "iso_639_entry" THEN DocAttrs ELSE {<<>>}

ParserSpecInit ==
  /\ MatchIdle
  /\ EnvIdle
  /\ DialogInit
  /\ WindowIdle
  /\ ParserInit
  /\ HAVE_ISO_CODES \in BOOLEAN
  /\ iso_639_xml \in BOOLEAN
  /\ LANGUAGE \in {NULL, <<"f","r">>}
  /\ arg_attrs = <<>>

ParserNext ==
  \/ gimp_language_store_parse_iso_codes
  \/ \E element_name \in ElementNames :
        \E attrs \in ElementAttrs(element_name) :
           iso_codes_parser_start_element(element_name, attrs)
  \/ iso_codes_parser_end_element
  \/ parse_file_returns

ParserSpec == ParserSpecInit /\ [][ParserNext]_vars

(***************************************************************************)
(* CallbackSpec: the two callbacks of the parser called in any order, the  *)
(* end-tag callback also when no element is open                           *)
(***************************************************************************)
CallbackInit ==
  /\ MatchIdle
  /\ EnvIdle
  /\ DialogInit
  /\ WindowIdle
  /\ ParserIdle

CallbackNext ==
  \/ gimp_language_store_parse_iso_codes
  \/ \E element_name \in ElementNames :
        \E attrs \in ElementAttrs(element_name) :
           iso_codes_parser_start_element(element_name, attrs)
  \/ iso_codes_parser_end_element
  \/ iso_codes_parser_end_element_unopened
  \/ parse_file_returns

CallbackSpec == CallbackInit /\ [][CallbackNext]_vars

(***************************************************************************)
(* What the claims speak of, stated without the code's scanning loops      *)
(***************************************************************************)
\* c and d are the same letter up to case
EqNoCase(c, d) ==
  \/ c = d
  \/ c \in DOMAIN UpperToLower /\ UpperToLower[c] = d
  \/ d \in DOMAIN UpperToLower /\ UpperToLower[d] = c

\* K occurs in L at index p (from 1), case-insensitively
OccursAt(K, L, p) ==
  /\ p + Len(K) - 1 <= Len(L)
  /\ \A i \in 1..Len(K) : EqNoCase(K[i], L[p + i - 1])

Occurs(K, L) == \E p \in 1..(Len(L) + 1) : OccursAt(K, L, p)

\* the i-th smallest element of the set of indices S
Nth(S, i) == CHOOSE x \in S : Cardinality({y \in S : y < x}) = i - 1

\* K is a subsequence of L: the characters of L at some set of indices,
\* read in increasing order, are those of K
IsSubsequence(K, L, Eq(_, _)) ==
  \E S \in SUBSET (1..Len(L)) :
     /\ Cardinality(S) = Len(K)
     /\ \A i \in 1..Len(K) : Eq(K[i], L[Nth(S, i)])

EqExact(c, d) == c = d

HasSecondWord(L) == \E i \in 1..Len(L) : L[i] = " "

FirstSpace(L) ==
  CHOOSE i \in 1..Len(L) : L[i] = " " /\ \A j \in 1..(i - 1) : L[j] # " "

\* K[0] is L[0] and K[1] is the character right after the first space of L
InitialsHold(K, L) ==
  /\ Len(K) = 2
  /\ HasSecondWord(L)
  /\ EqNoCase(K[1], L[1])
  /\ FirstSpace(L) < Len(L)
  /\ EqNoCase(K[2], L[FirstSpace(L) + 1])

TooltipHolds(K, T) == Len(K) > 2 /\ T # NULL /\ Occurs(K, T)

MatcherReturned == pc = "matched" /\ arg_keyword # NULL

(***************************************************************************)
(* C1 as stated: for a label with a second word and a two-character        *)
(* keyword, the matcher matches if and only if the keyword is the pair of  *)
(* initials of the first two words.                                        *)
(***************************************************************************)
C1_InitialsIff ==
  (MatcherReturned /\ Len(arg_keyword) = 2 /\ HasSecondWord(arg_label))
    => (ret_matched <=> InitialsHold(arg_keyword, arg_label))

(***************************************************************************)
(* C1 amended: for a label with a second word and a two-character keyword, *)
(* the pair of initials of the first two words matches, with section 1;    *)
(* the matcher matches if and only if the keyword is a subsequence of the  *)
(* label, case-insensitively (the initials of two words are one).          *)
(***************************************************************************)
C1_InitialsThenSubsequence ==
  (MatcherReturned /\ Len(arg_keyword) = 2 /\ HasSecondWord(arg_label))
    => /\ InitialsHold(arg_keyword, arg_label)
            => (ret_matched /\ ret_section = 1)
       /\ ret_matched <=> IsSubsequence(arg_keyword, arg_label, EqNoCase)

\* the initials match, in another case than the label's, a label in which
\* the keyword is no substring
C1_Witness ==
  /\ MatcherReturned
  /\ Len(arg_keyword) = 2
  /\ HasSecondWord(arg_label)
  /\ InitialsHold(arg_keyword, arg_label)
  /\ arg_keyword[1] # arg_label[1]
  /\ ~Occurs(arg_keyword, arg_label)
  /\ ret_matched
  /\ ret_section = 1

(***************************************************************************)
(* C2: a keyword that occurs in the label (case-insensitively) matches,    *)
(* with section 1 when it occurs at the start of the label, and with       *)
(* section 2 when it occurs only later and is not the pair of initials.    *)
(***************************************************************************)
C2_SubstringSection ==
  (MatcherReturned /\ Occurs(arg_keyword, arg_label))
    => /\ ret_matched
       /\ OccursAt(arg_keyword, arg_label, 1) => ret_section = 1
       /\ (~OccursAt(arg_keyword, arg_label, 1)
           /\ ~InitialsHold(arg_keyword, arg_label)) => ret_section = 2

C2_Witness ==
  /\ MatcherReturned
  /\ Len(arg_keyword) = 2
  /\ Occurs(arg_keyword, arg_label)
  /\ ~OccursAt(arg_keyword, arg_label, 1)
  /\ HasSecondWord(arg_label)
  /\ ret_matched
  /\ ret_section = 2

(***************************************************************************)
(* C3: action_fuzzy_match returns TRUE exactly when key is a subsequence   *)
(* of string; the matcher gives section 4 exactly when the initials, the   *)
(* label substring and the tooltip substring rules all fail and the        *)
(* keyword is a subsequence of the label, case-insensitively; "ftr"        *)
(* against "Feather Selection" gives section 4.                            *)
(***************************************************************************)
C3_FuzzyIsSubsequence ==
  /\ pc = "fuzzy"
       => (ret_matched <=> IsSubsequence(arg_keyword, arg_label, EqExact))
  /\ MatcherReturned
       => ((ret_matched /\ ret_section = 4)
            <=> /\ ~InitialsHold(arg_keyword, arg_label)
                /\ ~Occurs(arg_keyword, arg_label)
                /\ ~TooltipHolds(arg_keyword, arg_tooltip)
                /\ IsSubsequence(arg_keyword, arg_label, EqNoCase))
  /\ (MatcherReturned /\ arg_label = Feather_Selection
      /\ arg_keyword = <<"f","t","r">> /\ ~TooltipHolds(arg_keyword, arg_tooltip))
       => (ret_matched /\ ret_section = 4)

C3_Witness ==
  /\ MatcherReturned
  /\ arg_label = Feather_Selection
  /\ arg_keyword = <<"f","t","r">>
  /\ ret_matched
  /\ ret_section = 4

(***************************************************************************)
(* C4: a two-character keyword that is the pair of initials of the label   *)
(* gives section 1, also when a later rule would match it with a worse     *)
(* section; "gb" against "Gaussian Blur" gives section 1.                  *)
(***************************************************************************)
C4_InitialsFirst ==
  /\ (MatcherReturned /\ InitialsHold(arg_keyword, arg_label))
       => (ret_matched /\ ret_section = 1)
  /\ (MatcherReturned /\ arg_label = Gaussian_Blur /\ arg_keyword = <<"g","b">>)
       => (ret_matched /\ ret_section = 1)

\* the initials win over a substring later in the label (section 2)
C4_Witness ==
  /\ MatcherReturned
  /\ InitialsHold(arg_keyword, arg_label)
  /\ ~OccursAt(arg_keyword, arg_label, 1)
  /\ Occurs(arg_keyword, arg_label)
  /\ ret_matched
  /\ ret_section = 1

(***************************************************************************)
(* C5: when the keyword does not occur in the label, a keyword longer than *)
(* two characters that occurs in the tooltip gives section 3, also when it *)
(* is a subsequence of the label; a keyword of at most two characters      *)
(* never gives section 3.                                                  *)
(***************************************************************************)
C5_TooltipBeforeFuzzy ==
  /\ (MatcherReturned /\ ~Occurs(arg_keyword, arg_label)
      /\ TooltipHolds(arg_keyword, arg_tooltip))
       => (ret_matched /\ ret_section = 3)
  /\ (MatcherReturned /\ Len(arg_keyword) <= 2)
       => ~(ret_matched /\ ret_section = 3)

C5_Witness ==
  /\ MatcherReturned
  /\ ~Occurs(arg_keyword, arg_label)
  /\ TooltipHolds(arg_keyword, arg_tooltip)
  /\ IsSubsequence(arg_keyword, arg_label, EqNoCase)
  /\ ret_matched
  /\ ret_section = 3

(***************************************************************************)
(* What the claims about the result list and the session speak of          *)
(***************************************************************************)
Sorted(store) ==
  \A i, j \in 1..Len(store) : i < j => store[i].section <= store[j].section

Count(store, a) == Cardinality({i \in 1..Len(store) : store[i].action = a})

Listed(store, a) == \E i \in 1..Len(store) : store[i].action = a

\* the label shows something: it has a character that is no white space
HasVisibleLabel(a) ==
  \E i \in 1..Len(Registry[a].label) : Registry[a].label[i] # " "

\* the step is a call of action_search_add_to_results_list
AddStep == last_event'.handler = "action_search_add_to_results_list"

\* the step is key_released running a search, for SearchKeyword
SearchStep ==
  /\ last_event'.handler = "key_released"
  /\ last_event'.keyval \notin {"Escape", "Return"}
  /\ entry_text # <<>> \/ last_event'.keyval = "Down"

SearchKeyword == IF entry_text # <<>> THEN entry_text ELSE NULL

\* the step is a confirmation: Return in the entry or in the list, or the
\* activation of a row
ConfirmStep ==
  \/ /\ last_event'.handler \in {"key_released", "result_selected"}
     /\ last_event'.keyval = "Return"
  \/ last_event'.handler = "row_activated"

\* what the history collaborator returns to the search of this step
HistoryReturned ==
  gimp_action_history_search(SearchKeyword, history, sensitive,
                             search_show_unavailable)

InHistoryReturned(a) ==
  \E j \in 1..Len(HistoryReturned) : HistoryReturned[j] = a

\* the scan of the catalog reaches the action and the matcher accepts it
FoundByScan(a) ==
  /\ ~is_structural(Registry[a].name)
  /\ sensitive[a] \/ search_show_unavailable
  /\ match_action(a, SearchKeyword).matched

(***************************************************************************)
(* C6 as stated: after a search, an action that the history search         *)
(* returned and that the scan of the catalog found is in exactly one row   *)
(* of the list, and that row has section 0.                                *)
(***************************************************************************)
C6_HistoryOnce ==
  [][SearchStep =>
       \A a \in Actions :
          (InHistoryReturned(a) /\ FoundByScan(a))
            => /\ Count(results', a) = 1
               /\ \A i \in 1..Len(results') :
                     results'[i].action = a => results'[i].section = 0]_vars

(***************************************************************************)
(* C6 amended: after a search, an action whose label is not blank, that    *)
(* the history search returned and that the scan of the catalog found, is  *)
(* in exactly one row of the list, and that row has section 0.             *)
(***************************************************************************)
C6_LabelledHistoryOnce ==
  [][SearchStep =>
       \A a \in Actions :
          (HasVisibleLabel(a) /\ InHistoryReturned(a) /\ FoundByScan(a))
            => /\ Count(results', a) = 1
               /\ \A i \in 1..Len(results') :
                     results'[i].action = a => results'[i].section = 0]_vars

\* "co" was searched with "Copy" in the history: its one row has section 0,
\* not the section 1 the scan gives it
C6_Witness ==
  /\ last_event.handler = "key_released"
  /\ last_event.keyval = "other"
  /\ entry_text = <<"c","o">>
  /\ history = <<edit_copy>>
  /\ sensitive[edit_copy]
  /\ match_action(edit_copy, entry_text).section = 1
  /\ Count(results, edit_copy) = 1
  /\ results[1].action = edit_copy
  /\ results[1].section = 0
  /\ Len(results) > 1

(***************************************************************************)
(* C7: after every call of action_search_add_to_results_list the list is   *)
(* sorted by section, and the call has put the new row after every row     *)
(* whose section is at most its own and before every row whose section is  *)
(* greater, leaving the other rows in their order.                         *)
(***************************************************************************)
C7_SortedStable ==
  /\ []Sorted(results)
  /\ [][AddStep =>
          LET a   == last_event'.action
              row == Row(a, last_event'.section, sensitive)
          IN  IF HasVisibleLabel(a)
              THEN \E p \in 1..(Len(results) + 1) :
                      /\ results' = SubSeq(results, 1, p - 1) \o <<row>>
                                      \o SubSeq(results, p, Len(results))
                      /\ \A i \in 1..(p - 1) : results[i].section <= row.section
                      /\ \A i \in p..Len(results) : results[i].section > row.section
              ELSE results' = results]_vars

\* a row was added between a row of its own section and a row of a greater
\* section
C7_Witness ==
  /\ last_event.handler = "action_search_add_to_results_list"
  /\ Len(results) >= 3
  /\ results[1].section = results[2].section
  /\ results[2].section < results[3].section
  /\ results[1].action # results[2].action
  /\ results[2].action = last_event.action
  /\ results[2].section = last_event.section

(***************************************************************************)
(* C8: after a search the list starts with the rows of the actions the     *)
(* history search returned, in the order it returned them, all with        *)
(* section 0; when the keyword is not NULL every other row has a section   *)
(* greater than 0 and comes from the scan of the catalog.                  *)
(***************************************************************************)
C8_HistoryFirst ==
  [][SearchStep =>
       LET shown == SelectSeq(HistoryReturned, HasVisibleLabel)
       IN  /\ Len(results') >= Len(shown)
           /\ \A i \in 1..Len(shown) :
                 /\ results'[i].action = shown[i]
                 /\ results'[i].section = 0
           /\ SearchKeyword # NULL =>
                \A i \in (Len(shown) + 1)..Len(results') :
                   /\ results'[i].section > 0
                   /\ ~InHistoryReturned(results'[i].action)
                   /\ FoundByScan(results'[i].action)]_vars

\* two history rows in the order of the history, which is not the order of
\* the catalog, before the rows of the scan
C8_Witness ==
  /\ last_event.handler = "key_released"
  /\ last_event.keyval = "other"
  /\ entry_text = <<"c","o">>
  /\ history = <<tools_crop, edit_copy>>
  /\ Len(results) > 2
  /\ results[1].action = tools_crop
  /\ results[2].action = edit_copy
  /\ results[2].section = 0
  /\ results[3].section > 0

(***************************************************************************)
(* C9: a confirmation activates the action of the selected row and         *)
(* destroys the dialog when a row is selected and its action is sensitive  *)
(* at that moment; otherwise it activates nothing and the dialog stays.    *)
(***************************************************************************)
C9_ConfirmIffSensitive ==
  [][ConfirmStep =>
       IF selected # 0 /\ sensitive[results[selected].action]
       THEN /\ activated' = Append(activated, results[selected].action)
            /\ dialog' = "destroyed"
       ELSE /\ activated' = activated
            /\ dialog' = dialog]_vars

\* Return was released in the entry with a sensitive row selected: its
\* action was activated and the dialog destroyed
C9_Witness ==
  /\ last_event.handler = "key_released"
  /\ last_event.keyval = "Return"
  /\ dialog = "destroyed"
  /\ Len(activated) = 1
  /\ selected # 0
  /\ results[selected].action = activated[1]
  /\ sensitive[activated[1]]

KeywordSearchStep == SearchStep /\ entry_text # <<>>

\* the step is key_released searching with the NULL keyword: Down was
\* released while the entry was empty
ShowAllStep == SearchStep /\ entry_text = <<>>

\* the step is Escape in the entry or in the list
CancelStep ==
  /\ last_event'.handler \in {"key_released", "result_selected"}
  /\ last_event'.keyval = "Escape"

(***************************************************************************)
(* C11: a key release that searches for the non-empty text of the entry    *)
(* leaves in the list the rows of that keyword alone: the list is what the *)
(* search gives from an empty list, no action is in two rows, the listed   *)
(* actions are those with a visible label that the history search returned *)
(* or the scan found for this keyword; the list is shown and its first row *)
(* is the selected one.                                                    *)
(***************************************************************************)
C11_KeywordAlone ==
  [][KeywordSearchStep =>
       /\ entry_text' = entry_text
       /\ results' = action_search_history_and_actions(
                       <<>>, entry_text, history, sensitive,
                       search_show_unavailable)
       /\ \A a \in Actions :
             /\ Count(results', a) <= 1
             /\ Listed(results', a) <=>
                  /\ HasVisibleLabel(a)
                  /\ InHistoryReturned(a) \/ FoundByScan(a)
       /\ \A i \in 1..Len(results') :
             match_action(results'[i].action, entry_text).matched
       /\ list_view_visible'
       /\ Len(results') > 0 => selected' = 1]_vars

\* "cop" was searched after "co": the row of "Cut Out", which "co" lists,
\* is not in the list, and the first row is selected
C11_Witness ==
  /\ last_event.handler = "key_released"
  /\ last_event.keyval = "other"
  /\ entry_text = <<"c","o","p">>
  /\ match_action(edit_cut_out, <<"c","o">>).matched
  /\ ~Listed(results, edit_cut_out)
  /\ Len(results) > 1
  /\ list_view_visible
  /\ selected = 1

(***************************************************************************)
(* C12 as stated: the show-all search lists every sensitive action of the  *)
(* registry, each with section 0, and the matcher gives a match with       *)
(* section 0 for every action when the keyword is NULL.                    *)
(***************************************************************************)
C12_ShowAllEvery ==
  [][ShowAllStep =>
       /\ \A a \in Actions :
             sensitive[a] =>
               /\ Listed(results', a)
               /\ \A i \in 1..Len(results') :
                     results'[i].action = a => results'[i].section = 0
       /\ \A a \in Actions :
             match_action(a, NULL) = [matched |-> TRUE, section |-> 0]]_vars

(***************************************************************************)
(* C12 amended: the show-all search lists, once and with section 0, every  *)
(* sensitive action whose name is not structural and whose label is not    *)
(* blank; every row of the list has section 0; the matcher gives a match   *)
(* with section 0 for every action when the keyword is NULL.               *)
(***************************************************************************)
C12_ShowAllListable ==
  [][ShowAllStep =>
       /\ \A a \in Actions :
             (sensitive[a] /\ ~is_structural(Registry[a].name)
              /\ HasVisibleLabel(a))
               => Count(results', a) = 1
       /\ \A i \in 1..Len(results') : results'[i].section = 0
       /\ \A a \in Actions :
             match_action(a, NULL) = [matched |-> TRUE, section |-> 0]
       /\ list_view_visible']_vars

\* Down was released in the empty entry: "Scope", which "co" ranks 2, is
\* listed with section 0; the sensitive "edit-menu" is not listed
C12_Witness ==
  /\ last_event.handler = "key_released"
  /\ last_event.keyval = "Down"
  /\ entry_text = <<>>
  /\ list_view_visible
  /\ \E i \in 1..Len(results) :
        /\ Registry[results[i].action].label = <<"S","c","o","p","e">>
        /\ results[i].section = 0
  /\ sensitive[edit_menu]
  /\ ~Listed(results, edit_menu)
  /\ Len(results) >= 4

(***************************************************************************)
(* C13: Escape in the entry or in the list destroys the dialog and         *)
(* activates no action, whatever the state of the session, also when the   *)
(* selected row is that of a sensitive action.                             *)
(***************************************************************************)
C13_CancelActivatesNothing ==
  [][CancelStep =>
       /\ dialog' = "destroyed"
       /\ activated' = activated]_vars

\* Escape in the list with a sensitive row selected: the dialog is
\* destroyed and nothing was activated
C13_Witness ==
  /\ last_event.handler = "result_selected"
  /\ last_event.keyval = "Escape"
  /\ dialog = "destroyed"
  /\ selected # 0
  /\ sensitive[results[selected].action]
  /\ activated = <<>>

(***************************************************************************)
(* What the claims about iso_codes_parser_entry speak of                   *)
(***************************************************************************)
HasAttr(attrs, n) == \E i \in 1..Len(attrs) : attrs[i].name = n

\* the value of the attribute named n
AttrValue(attrs, n) ==
  attrs[CHOOSE i \in 1..Len(attrs) : attrs[i].name = n].value

\* the first attribute of attrs whose name is one of ns
FirstOf(attrs, ns) ==
  attrs[CHOOSE i \in 1..Len(attrs) :
          /\ attrs[i].name \in ns
          /\ \A j \in 1..(i - 1) : attrs[j].name \notin ns]

\* the name of the entry, NULL without a name attribute
ResolvedName(attrs) ==
  IF HasAttr(attrs, "name") THEN AttrValue(attrs, "name") ELSE NULL

\* the code of the entry as the code chooses it: iso_639_1_code when the
\* element has it, else whichever of iso_639_2B_code and iso_639_2T_code
\* comes first, NULL with none of the three
ResolvedCode(attrs) ==
  IF HasAttr(attrs, "iso_639_1_code") THEN AttrValue(attrs, "iso_639_1_code")
  ELSE IF HasAttr(attrs, "iso_639_2B_code") \/ HasAttr(attrs, "iso_639_2T_code")
  THEN FirstOf(attrs, {"iso_639_2B_code", "iso_639_2T_code"}).value
  ELSE NULL

\* the code of the entry by the priority C15 states: iso_639_2B_code, else
\* iso_639_2T_code, else iso_639_1_code
PriorityCode(attrs) ==
  IF HasAttr(attrs, "iso_639_2B_code") THEN AttrValue(attrs, "iso_639_2B_code")
  ELSE IF HasAttr(attrs, "iso_639_2T_code") THEN AttrValue(attrs, "iso_639_2T_code")
  ELSE IF HasAttr(attrs, "iso_639_1_code") THEN AttrValue(attrs, "iso_639_1_code")
  ELSE NULL

Present(str) == str # NULL /\ str # <<>>

\* the codes of the entries an entry with this name and code adds
EntryCodes(name, code) ==
  IF code = zh THEN <<zh_CN, zh_TW, zh_HK>>
  ELSE IF Present(name) /\ Present(code) THEN <<code>>
  ELSE <<>>

StoreCodes(store) == [i \in 1..Len(store) |-> store[i].code]

\* str up to its first semicolon, all of str when it has none
BeforeSemicolon(str) ==
  LET p == CHOOSE n \in 0..Len(str) :
             /\ \A i \in 1..n : str[i] # ";"
             /\ n = Len(str) \/ str[n + 1] = ";"
  IN  SubSeq(str, 1, p)

\* the name in the language of the code, or else in the languages of
\* LANGUAGE and of the locale; the name itself for "en"
Localized(name, code, language) ==
  IF code = en THEN name ELSE dgettext(name, temp_lang(code, language))

EntryReturned == parse_pc = "entry_returned"

\* the step is a call of iso_codes_parser_entry in EntrySpec
EntryStep == parse_pc = "idle" /\ parse_pc' = "entry_returned"

(***************************************************************************)
(* C14: an entry whose code is "zh" adds three entries, with the codes     *)
(* zh_CN, zh_TW and zh_HK in this order; no entry is ever added with the   *)
(* code "zh"; so for name="Chinese", iso_639_1_code="zh".                  *)
(***************************************************************************)
C14_ChineseRegions ==
  EntryReturned =>
    /\ ResolvedCode(arg_attrs) = zh =>
         StoreCodes(language_store) = <<zh_CN, zh_TW, zh_HK>>
    /\ \A i \in 1..Len(language_store) : language_store[i].code # zh
    /\ arg_attrs = << [name |-> "name", value |-> Chinese],
                      [name |-> "iso_639_1_code", value |-> zh] >>
         => StoreCodes(language_store) = <<zh_CN, zh_TW, zh_HK>>

C14_Witness ==
  /\ EntryReturned
  /\ arg_attrs = << [name |-> "name", value |-> Chinese],
                    [name |-> "iso_639_1_code", value |-> zh] >>
  /\ Len(language_store) = 3
  /\ language_store[1].code = zh_CN
  /\ language_store[3].code = zh_HK

(***************************************************************************)
(* C15 as stated: the code of an entry is that of iso_639_2B_code, else    *)
(* that of iso_639_2T_code, else that of iso_639_1_code, whatever the      *)
(* order of the attributes: the entries added are those of this code.      *)
(***************************************************************************)
C15_PriorityCode ==
  EntryReturned =>
    StoreCodes(language_store) =
      EntryCodes(ResolvedName(arg_attrs), PriorityCode(arg_attrs))

(***************************************************************************)
(* C15 amended: the code of an entry is that of iso_639_1_code when the    *)
(* element has this attribute, wherever it stands; otherwise it is that of *)
(* whichever of iso_639_2B_code and iso_639_2T_code comes first in the     *)
(* element: the entries added are those of this code.                      *)
(***************************************************************************)
C15_Iso1ThenFirstAlternate ==
  EntryReturned =>
    StoreCodes(language_store) =
      EntryCodes(ResolvedName(arg_attrs), ResolvedCode(arg_attrs))

\* iso_639_1_code comes after iso_639_2B_code and replaces its code
C15_Witness ==
  /\ EntryReturned
  /\ Len(arg_attrs) = 3
  /\ arg_attrs[1] = [name |-> "name", value |-> English]
  /\ arg_attrs[2] = [name |-> "iso_639_2B_code", value |-> <<"a","s","t">>]
  /\ arg_attrs[3] = [name |-> "iso_639_1_code", value |-> en]
  /\ StoreCodes(language_store) = <<en>>

(***************************************************************************)
(* C17: an entry with a name and a code that are not empty, the code not   *)
(* "zh", adds exactly one entry, with this code and with the localized     *)
(* name up to its first semicolon (all of it when it has none).            *)
(***************************************************************************)
C17_OneEntryFirstName ==
  [][EntryStep =>
       LET name == ResolvedName(arg_attrs)
           code == ResolvedCode(arg_attrs)
       IN  (Present(name) /\ Present(code) /\ code # zh) =>
             /\ Len(language_store') = Len(language_store) + 1
             /\ language_store'[Len(language_store')] =
                  [label |-> BeforeSemicolon(Localized(name, code, LANGUAGE)),
                   code  |-> code]]_vars

\* the name in its own language has two names: the first one is the label
C17_Witness ==
  /\ EntryReturned
  /\ ResolvedName(arg_attrs) = Asturian
  /\ ResolvedCode(arg_attrs) = <<"a","s","t">>
  /\ LANGUAGE = <<"f","r">>
  /\ language_store = << [label |-> <<"A","s","t","u","r","i","a","n","u">>,
                          code  |-> <<"a","s","t">>] >>

(***************************************************************************)
(* C18: a call leaves LANGUAGE as it was, set to the same value or unset;  *)
(* an entry that is localized writes it twice, and an entry with the code  *)
(* "en" does not write it and is added under its untranslated name.        *)
(***************************************************************************)
C18_LanguageRestored ==
  [][EntryStep =>
       LET name == ResolvedName(arg_attrs)
           code == ResolvedCode(arg_attrs)
       IN  /\ LANGUAGE' = LANGUAGE
           /\ (Present(name) /\ code = en) =>
                /\ LANGUAGE_writes' = LANGUAGE_writes
                /\ language_store' =
                     Append(language_store,
                            [label |-> BeforeSemicolon(name), code |-> en])
           /\ (Present(name) /\ Present(code) /\ code \notin {en, zh}) =>
                LANGUAGE_writes' = LANGUAGE_writes + 2]_vars

\* LANGUAGE was not set, was written for the lookup and is not set again
C18_Witness ==
  /\ EntryReturned
  /\ LANGUAGE = NULL
  /\ LANGUAGE_writes = 2
  /\ Len(language_store) = 1
  /\ language_store[1].code # en

(***************************************************************************)
(* What the claims about the parser callbacks speak of                     *)
(***************************************************************************)
\* parser.state before the i-th callback of the log
StateBefore(log, i) == IF i = 1 THEN ISO_CODES_START ELSE log[i - 1].state

\* the start-tags less the end-tags among the callbacks i..j of the log
Balance(log, i, j) ==
  Cardinality({k \in i..j : log[k].kind = "start"})
    - Cardinality({k \in i..j : log[k].kind = "end"})

\* a start-tag the state does not expect: any tag inside an entry or inside
\* an unknown element, a tag that is neither iso_639_entries nor
\* iso_639_entry, iso_639_entries inside iso_639_entries
Unexpected(state, element_name) ==
  \/ state \in {ISO_CODES_IN_ENTRY, ISO_CODES_IN_UNKNOWN}
  \/ element_name \notin {"iso_639_entries", "iso_639_entry"}
  \/ state = ISO_CODES_IN_ENTRIES /\ element_name = "iso_639_entries"

\* the callbacks of the log are the tags of: an entry with an unknown child
\* that has an unknown child, up to the n-th tag
NestedUnknown(log, n) ==
  /\ Len(log) >= n
  /\ \A i \in 1..n : log[i].kind = (IF i <= 4 THEN "start" ELSE "end")
  /\ \A i \in 1..MIN(n, 4) :
        log[i].name = <<"iso_639_entries", "iso_639_entry", "other", "other">>[i]

ScrollStep(direction, control) ==
  last_scroll' = [direction |-> direction, control |-> control]

(***************************************************************************)
(* C20: the opacity of the configuration stays within 10..100; a scroll up *)
(* with Control raises it by 5, to 100 at most, a scroll down with Control *)
(* lowers it by 5, to 10 at least, and a scroll without Control leaves it  *)
(* as it is.                                                               *)
(***************************************************************************)
C20_OpacityInRange ==
  /\ [](search_dialog_opacity \in 10..100)
  /\ [][/\ ScrollStep("GDK_SCROLL_UP", TRUE) =>
             search_dialog_opacity' =
               IF search_dialog_opacity + 5 > 100 THEN 100
               ELSE search_dialog_opacity + 5
        /\ ScrollStep("GDK_SCROLL_DOWN", TRUE) =>
             search_dialog_opacity' =
               IF search_dialog_opacity - 5 < 10 THEN 10
               ELSE search_dialog_opacity - 5
        /\ (\E direction \in ScrollDirections : ScrollStep(direction, FALSE))
             => search_dialog_opacity' = search_dialog_opacity]_vars

\* a scroll up with Control ended at the greatest opacity
C20_Witness ==
  /\ last_scroll = [direction |-> "GDK_SCROLL_UP", control |-> TRUE]
  /\ search_dialog_opacity = 100
  /\ window_opacity = 100

(***************************************************************************)
(* What the claims C22, C23 and C27 speak of                               *)
(***************************************************************************)
EndsWith(s, t) ==
  Len(t) <= Len(s) /\ SubSeq(s, Len(s) - Len(t) + 1, Len(s)) = t

StartsWith(s, t) ==
  Len(t) <= Len(s) /\ SubSeq(s, 1, Len(t)) = t

\* the action is a menu, a popup, a context action or a recent plug-in
Structural(a) ==
  LET name == Registry[a].name
  IN  \/ EndsWith(name, <<"-","m","e","n","u">>)
      \/ EndsWith(name, <<"-","p","o","p","u","p">>)
      \/ StartsWith(name, <<"c","o","n","t","e","x","t","-">>)
      \/ StartsWith(name, <<"p","l","u","g","-","i","n","-","r","e","c","e","n","t","-">>)

\* the session is in Empty: no keyword in the entry, the list hidden
EmptyState == entry_text = <<>> /\ ~list_view_visible

(***************************************************************************)
(* C22: after a search, with a keyword or with the NULL keyword of the     *)
(* show-all trigger, no row that the scan of the registry added (a row of  *)
(* an action that the history search did not return) is the row of a       *)
(* structural action: a name ending in "-menu" or "-popup", or starting    *)
(* with "context-" or "plug-in-recent-".                                   *)
(***************************************************************************)
C22_NoStructuralRow ==
  [][SearchStep =>
       \A i \in 1..Len(results') :
          ~InHistoryReturned(results'[i].action) =>
             ~Structural(results'[i].action)]_vars

\* "co" was searched: the four structural actions are sensitive and their
\* label "Copy" matches, none is listed, and the scan added other rows
C22_Witness ==
  /\ last_event.handler = "key_released"
  /\ last_event.keyval = "other"
  /\ entry_text = <<"c","o">>
  /\ Cardinality({a \in Actions : Structural(a)}) = 4
  /\ \A a \in Actions :
        Structural(a) =>
           /\ sensitive[a]
           /\ match_action(a, entry_text).matched
           /\ ~Listed(results, a)
  /\ history = <<>>
  /\ Len(results) > 1

(***************************************************************************)
(* C23 as stated: once the keyword is cleared (the entry is empty and the  *)
(* list is hidden), a confirmation activates no action until a search has  *)
(* run again.                                                              *)
(***************************************************************************)
C23_NoConfirmInEmpty ==
  [][(ConfirmStep /\ EmptyState) => activated' = activated]_vars

(***************************************************************************)
(* C27: in one session at most one action is activated; the step that      *)
(* activates it is a confirmation and destroys the dialog; once the dialog *)
(* is destroyed, after a confirmation or a cancel, no action is activated  *)
(* and the result list is not rebuilt.                                     *)
(***************************************************************************)
C27_OneActivationThenTeardown ==
  /\ [](Len(activated) <= 1)
  /\ [][activated' # activated =>
          /\ ConfirmStep
          /\ Len(activated') = Len(activated) + 1
          /\ dialog' = "destroyed"]_vars
  /\ [][CancelStep => dialog' = "destroyed"]_vars
  /\ [][dialog = "destroyed" =>
          /\ activated' = activated
          /\ results' = results
          /\ dialog' = dialog]_vars

\* the second row of the list was activated and the dialog is gone
C27_Witness ==
  /\ dialog = "destroyed"
  /\ last_event.handler = "row_activated"
  /\ Len(activated) = 1
  /\ selected = 2
  /\ activated[1] = results[2].action

(***************************************************************************)
(* What the claim C28 speaks of                                            *)
(***************************************************************************)
\* the entry of a region of "zh": its name is that of "Chinese"
RegionEntry(region, language) ==
  [label |-> BeforeSemicolon(Localized(Chinese, region, language)),
   code  |-> region]

(***************************************************************************)
(* C28: an entry that has no name or no code, or an empty one, adds no     *)
(* entry when its code is not "zh"; an entry whose code is "zh" adds the   *)
(* entries of the three regions, each named from "Chinese" whatever the    *)
(* name attribute of the element is, and when it has none.                 *)
(***************************************************************************)
C28_MissingNameOrCode ==
  [][EntryStep =>
       LET name == ResolvedName(arg_attrs)
           code == ResolvedCode(arg_attrs)
       IN  /\ ((~Present(name) \/ ~Present(code)) /\ code # zh) =>
                /\ language_store' = language_store
                /\ language_store' = <<>>
           /\ code = zh =>
                language_store' = << RegionEntry(zh_CN, LANGUAGE),
                                     RegionEntry(zh_TW, LANGUAGE),
                                     RegionEntry(zh_HK, LANGUAGE) >>]_vars

\* an element with the code "zh" and no name attribute added the three
\* regions, the first under the first name its own language has for Chinese
C28_Witness ==
  /\ EntryReturned
  /\ arg_attrs = << [name |-> "iso_639_1_code", value |-> zh] >>
  /\ ResolvedName(arg_attrs) = NULL
  /\ Len(language_store) = 3
  /\ language_store[1] = [label |-> <<"Z","h","o","n","g","w","e","n">>,
                          code |-> zh_CN]
  /\ language_store[2].code = zh_TW

(***************************************************************************)
(* What the claims C24 to C26 speak of                                     *)
(***************************************************************************)
\* the step is the start-tag callback for element_name
StartTagStep(element_name) ==
  /\ Len(parse_log') = Len(parse_log) + 1
  /\ parse_log'[Len(parse_log')].kind = "start"
  /\ parse_log'[Len(parse_log')].name = element_name

\* the document of the log has one root: no start-tag comes after the
\* end-tag that closes the first element
SingleRoot(log) ==
  \A i \in 2..Len(log) :
     log[i].kind = "start" => Balance(log, 1, i - 1) > 0

\* the log is the whole of a document: every element is closed
Complete(log) == log # <<>> /\ Balance(log, 1, Len(log)) = 0

(***************************************************************************)
(* C24 as stated: the store changes only at the start-tag of an            *)
(* iso_639_entry whose parent is the root element, an iso_639_entries: an  *)
(* iso_639_entry that is itself the root, or is inside another             *)
(* iso_639_entry or inside an unknown element, adds nothing.               *)
(***************************************************************************)
C24_OnlyChildrenOfRoot ==
  [][language_store' # language_store =>
       /\ StartTagStep("iso_639_entry")
       /\ open_elements = <<"iso_639_entries">>]_vars

(***************************************************************************)
(* C25: whatever start-tag and end-tag callbacks were called, in any       *)
(* order: the parser is in IN_UNKNOWN exactly when unknown_depth is        *)
(* positive, unknown_depth is not negative, last_known_state is not        *)
(* IN_UNKNOWN, and the assertion of iso_codes_parser_end_unknown has not   *)
(* failed.                                                                 *)
(***************************************************************************)
C25_UnknownDepthInvariant ==
  /\ parser_state = ISO_CODES_IN_UNKNOWN <=> unknown_depth > 0
  /\ unknown_depth >= 0
  /\ last_known_state # ISO_CODES_IN_UNKNOWN
  /\ parse_pc # "aborted"

\* after an end-tag with no element open: inside an entry two unknown
\* elements were opened, one nested in the other, and the inner one closed
C25_Witness ==
  /\ Len(parse_log) = 6
  /\ parse_log[1].kind = "end"
  /\ parse_log[5].state = ISO_CODES_IN_UNKNOWN
  /\ parse_log[6].kind = "end"
  /\ parser_state = ISO_CODES_IN_UNKNOWN
  /\ unknown_depth = 1
  /\ last_known_state = ISO_CODES_IN_ENTRY
  /\ open_elements = <<"iso_639_entries", "iso_639_entry", "other">>

(***************************************************************************)
(* C26: for the tags of a properly nested document the end-tag callback is *)
(* never called in the state START; at the end of a document with one root *)
(* that is an iso_639_entries, the parser is in START and unknown_depth    *)
(* is 0.                                                                   *)
(***************************************************************************)
C26_EndNeverInStart ==
  /\ \A i \in 1..Len(parse_log) :
        parse_log[i].kind = "end" =>
           StateBefore(parse_log, i) # ISO_CODES_START
  /\ (/\ Complete(parse_log)
      /\ SingleRoot(parse_log)
      /\ parse_log[1].name = "iso_639_entries")
       => /\ parser_state = ISO_CODES_START
          /\ unknown_depth = 0

\* the parse returned at the end of a document that has an entry with an
\* unknown child
C26_Witness ==
  /\ parse_pc = "returned"
  /\ parse_success
  /\ Len(parse_log) = 6
  /\ SingleRoot(parse_log)
  /\ \A i \in 1..3 :
        /\ parse_log[i].kind = "start"
        /\ parse_log[i].name = <<"iso_639_entries", "iso_639_entry", "other">>[i]
  /\ \A i \in 4..6 : parse_log[i].kind = "end"
  /\ parse_log[5].state = ISO_CODES_IN_ENTRIES
  /\ parser_state = ISO_CODES_START
  /\ unknown_depth = 0

(***************************************************************************)
(* What the claims C21 and C29 speak of                                    *)
(***************************************************************************)
\* the step is action_search_update_position, at the creation of the dialog
UpdatePositionStep ==
  geometry_event'.handler = "action_search_update_position"

\* the step is window_configured for a configure event
ConfigureStep ==
  /\ geometry_event'.handler = "window_configured"
  /\ geometry_event'.type = "GDK_CONFIGURE"

WithinScreen(g) ==
  /\ g.x >= 0
  /\ g.y >= 0
  /\ g.x + g.width <= ScreenWidth
  /\ g.y + g.height <= ScreenHeight

(***************************************************************************)
(* C21 as stated: with the parent window within the screen,                *)
(* action_search_update_position leaves a geometry in range, whatever the  *)
(* persisted values were: the width is in 0..screen width, the height in   *)
(* 0..screen height, x and y are not negative and the dialog ends within   *)
(* the screen; a value that was in range is left as it was.                *)
(***************************************************************************)
C21_GeometryInRange ==
  [][(UpdatePositionStep /\ WithinScreen(geometry_event'.window)) =>
       /\ search_dialog_width' \in 0..ScreenWidth
       /\ search_dialog_height' \in 0..ScreenHeight
       /\ search_dialog_x' >= 0
       /\ search_dialog_x' + search_dialog_width' <= ScreenWidth
       /\ search_dialog_y' >= 0
       /\ search_dialog_y' + search_dialog_height' <= ScreenHeight
       /\ search_dialog_width \in 0..ScreenWidth =>
            search_dialog_width' = search_dialog_width
       /\ search_dialog_height \in 0..ScreenHeight =>
            search_dialog_height' = search_dialog_height
       /\ (search_dialog_x >= 0
           /\ search_dialog_x + search_dialog_width' <= ScreenWidth) =>
            search_dialog_x' = search_dialog_x
       /\ (search_dialog_y >= 0
           /\ search_dialog_y + search_dialog_height' <= ScreenHeight) =>
            search_dialog_y' = search_dialog_y]_vars

(***************************************************************************)
(* C29: a configure event that finds the list hidden leaves the persisted  *)
(* height as it is; on a visible window it stores the width of the window  *)
(* and its position, a negative x or y as 0; on a window that is not       *)
(* visible it changes none of the four persisted values.                   *)
(***************************************************************************)
C29_ConfigureFrame ==
  [][ConfigureStep =>
       LET window == geometry_event'.window
       IN  /\ ~list_view_visible =>
                search_dialog_height' = search_dialog_height
           /\ geometry_event'.visible =>
                /\ search_dialog_width' = window.width
                /\ search_dialog_x' = MAX(window.x, 0)
                /\ search_dialog_y' = MAX(window.y, 0)
           /\ ~geometry_event'.visible =>
                UNCHANGED <<search_dialog_x, search_dialog_y,
                            search_dialog_width, search_dialog_height>>]_vars

\* the list was shown and is hidden again; a configure event found the
\* window one pixel high and left of the screen: the height of the
\* configuration is still that of the screen, x is 0
C29_Witness ==
  /\ geometry_event.handler = "window_configured"
  /\ geometry_event.type = "GDK_CONFIGURE"
  /\ geometry_event.visible
  /\ geometry_event.window.height = 1
  /\ geometry_event.window.x < 0
  /\ Len(results) > 0
  /\ ~list_view_visible
  /\ search_dialog_height = ScreenHeight
  /\ search_dialog_x = 0
  /\ search_dialog_width = geometry_event.window.width

====
